---- MODULE Spec2Model ----
(***************************************************************************)
(* Model of the RPS/NFSe orchestration of the Bling integration backend:   *)
(*   - gerarRPSParaPedidos  (generate: order -> NFSe -> queue record)      *)
(*   - enviarNFSeParaPrefeitura (submit a queue record)                    *)
(*   - sincronizarStatusNFSe (reconcile queue records with the ERP)        *)
(*   - ensureValidToken / refreshAccessToken (token cache)                 *)
(*   - buscarSituacaoNFSe (polling), the RPS number, the OAuth exchange    *)
(* The specifications share the variables:                                 *)
(*   SpecGerar  two generate requests interleaving at their await points   *)
(*   SpecEnvio  a submit request working on the queue store                *)
(*   SpecSinc   a sync request working on the queue store                  *)
(*   SpecToken  the token cache under a clock                              *)
(*   SpecPoll   one buscarSituacaoNFSe call                                 *)
(*   SpecRPS    the emission attempts of one order or duplicata            *)
(*   SpecOAuth  authorization URLs, code exchanges and refreshes           *)
(*   SpecLogout clearTokens against a token check waiting for its refresh  *)
(*   SpecContato one verificarOuCriarContato call                          *)
(***************************************************************************)
EXTENDS Integers, Sequences, FiniteSets, TLC

VARIABLES
    fila,     \* the table pedidos_venda_rps: sequence of rows, row id = index
    nfses,    \* NFSe created in the ERP by POST /nfse: sequence of order ids, NFSe id = index
    gen,      \* per generate request: position in gerarRPSParaPedidos and its locals
    falhas,   \* number of injected failures (remote errors, store errors) so far
    env,      \* the submit request: position in enviarNFSeParaPrefeitura
    sinc,     \* the sync request: position in sincronizarStatusNFSe
    ult,      \* description of the last per-record step of submit or sync
    tokens,   \* BlingService.tokens (the in-memory token cache)
    agora,    \* the clock, Date.now(), in seconds
    redeTok,  \* number of requests sent to the token endpoint
    ultTok,   \* the last ensureValidToken call: what it found, did and returned
    poll,     \* a buscarSituacaoNFSe call: its attempt, reads, waits and return
    item,     \* an order or duplicata being emitted and the RPS numbers sent for it
    disco,    \* the tokens file (config.tokens_file): the access token saved in it, 0 if no file
    states,   \* BlingService.states, its pending expiry timers, and the ledger of issues
    resolucao, \* a verificarOuCriarContato call: its position and what each call answered
    inicio    \* the start of the process: the tokens file the constructor finds, what loadTokens did

vars == <<fila, nfses, gen, falhas, env, sinc, ult, tokens, agora, redeTok, ultTok,
          poll, item, disco, states, resolucao, inicio>>

varsGerar == <<fila, nfses, gen, falhas>>
varsFila  == <<env, sinc, ult>>
varsToken == <<tokens, agora, redeTok, ultTok, disco>>
varsAux   == <<poll, item, states, resolucao, inicio>>

(***************************************************************************)
(* Bounds of the model                                                     *)
(***************************************************************************)
MaxLote == 2          \* longest list of order ids passed to generate
MaxFalhas == 1        \* failing calls (remote errors, store errors) per behaviour

NULL == "null"

(***************************************************************************)
(* The ERP's sales orders and products (read-only, fetched per request)    *)
(***************************************************************************)
Digitos == {"0","1","2","3","4","5","6","7","8","9"}

\* '123.456.789-01': 11 digits
DocValido == <<"1","2","3",".","4","5","6",".","7","8","9","-","0","1">>
\* '123.456.789-0': 13 characters but only 10 digits
DocCurto == <<"1","2","3",".","4","5","6",".","7","8","9","-","0">>

\* product id -> tipo ('S' service, 'P' product)
ProdutoServico == "prod-servico"
ProdutoMercadoria == "prod-mercadoria"
TipoProduto(produtoId) == IF produtoId = ProdutoServico THEN "S" ELSE "P"

SituacaoCancelado == 2
SituacaoAtendido == 9

PedidoIds == {1, 2, 3, 4, 5, 6}

\* response.data of GET /pedidos/vendas/{id}
Pedido(id) ==
    CASE id = 1 -> [situacao |-> SituacaoAtendido, temContato |-> TRUE,
                    numeroDocumento |-> DocValido, itens |-> <<ProdutoMercadoria, ProdutoServico>>]
      [] id = 2 -> [situacao |-> SituacaoCancelado, temContato |-> TRUE,
                    numeroDocumento |-> DocValido, itens |-> <<ProdutoServico>>]
      [] id = 3 -> [situacao |-> SituacaoAtendido, temContato |-> TRUE,
                    numeroDocumento |-> DocCurto, itens |-> <<ProdutoServico>>]
      [] id = 4 -> [situacao |-> SituacaoAtendido, temContato |-> TRUE,
                    numeroDocumento |-> DocValido, itens |-> <<ProdutoMercadoria>>]
      [] id = 5 -> [situacao |-> SituacaoAtendido, temContato |-> TRUE,
                    numeroDocumento |-> <<>>, itens |-> <<ProdutoServico>>]
      [] OTHER  -> [situacao |-> SituacaoAtendido, temContato |-> FALSE,
                    numeroDocumento |-> <<>>, itens |-> <<>>]

\* String.replace(/\D/g, '')
SoDigitos(s) == SelectSeq(s, LAMBDA c : c \in Digitos)

DocMinLen == 11

\* variant: the same test on the raw document, without replace(/\D/g, '')
isConsumidorFinalSemLimpar(pedido) ==
    IF ~pedido.temContato \/ pedido.numeroDocumento = <<>>
    THEN TRUE
    ELSE Len(pedido.numeroDocumento) < DocMinLen

\* BlingService.isConsumidorFinal
isConsumidorFinal(pedido) ==
    IF ~pedido.temContato \/ pedido.numeroDocumento = <<>>
    THEN TRUE
    ELSE LET doc == SoDigitos(pedido.numeroDocumento)
         IN  IF doc = <<>> \/ Len(doc) < DocMinLen THEN TRUE ELSE FALSE

(***************************************************************************)
(* QueueStore: RpsService over the table pedidos_venda_rps                 *)
(***************************************************************************)
\* variant: a table without the unique index
IndiceUnicoSemEfeito(tab, pedidoVendaId) == TRUE
\* the unique index IDX_PEDIDO_VENDA_ID / @Column({unique: true}) accepts an
\* insert only when no row holds that pedidoVendaId
IndiceUnicoPermite(tab, pedidoVendaId) ==
    \A k \in 1..Len(tab) : tab[k].pedidoVendaId # pedidoVendaId

\* RpsService.criar: repository.save of a new row (id is generated)
criar(tab, data) ==
    Append(tab, [id |-> Len(tab) + 1,
                 pedidoVendaId |-> data.pedidoVendaId,
                 nfseId |-> data.nfseId,
                 status |-> data.status,
                 numeroNFSe |-> NULL,
                 mensagemErro |-> NULL])

\* variant: a lookup that always answers null
buscarPorPedidoIdSemConsulta(tab, pedidoId, lido) == 0
\* RpsService.buscarPorPedidoId: the row id found, 0 for null; a store error
\* is caught and also answers null
buscarPorPedidoId(tab, pedidoId, lido) ==
    IF lido /\ \E k \in 1..Len(tab) : tab[k].pedidoVendaId = pedidoId
    THEN CHOOSE k \in 1..Len(tab) : tab[k].pedidoVendaId = pedidoId
    ELSE 0

(***************************************************************************)
(* gerarRPSParaPedidos, one action per await point of the loop body        *)
(***************************************************************************)
Reqs == {"A", "B"}

\* lote holds the ids of pedidoIds the loop has reached (the loop never looks
\* ahead, so each id is drawn when the loop reaches it), n is pedidoIds.length
GenOcioso ==
    [pc |-> "ocioso", lote |-> <<>>, n |-> 0, i |-> 1, existia |-> FALSE,
     contatoOk |-> FALSE, produtosOk |-> {}, nfseId |-> 0,
     chamadas |-> {}, falhou |-> {}, resultados |-> <<>>]

PodeFalhar == falhas < MaxFalhas

\* variant: an 'erro' entry ends the batch
ProximoAbortaNoErro(g, status, motivo, chamada, falha) ==
    [g EXCEPT
       !.resultados = Append(@, [pedidoId  |-> g.lote[g.i],
                                 status    |-> status,
                                 motivo    |-> motivo,
                                 nfseId    |-> IF status = "sucesso" THEN g.nfseId ELSE 0,
                                 existia   |-> g.existia,
                                 produtosOk |-> g.produtosOk,
                                 chamadas  |-> g.chamadas \cup chamada,
                                 falhou    |-> g.falhou \cup falha]),
       !.i = @ + 1,
       !.pc = IF g.i < g.n /\ status # "erro" THEN "pedido" ELSE "fim",
       !.existia = FALSE, !.contatoOk = FALSE, !.produtosOk = {},
       !.nfseId = 0, !.chamadas = {}, !.falhou = {}]

\* resultados.push(...) followed by continue / the end of the loop body
Proximo(g, status, motivo, chamada, falha) ==
    [g EXCEPT
       !.resultados = Append(@, [pedidoId  |-> g.lote[g.i],
                                 status    |-> status,
                                 motivo    |-> motivo,
                                 nfseId    |-> IF status = "sucesso" THEN g.nfseId ELSE 0,
                                 existia   |-> g.existia,
                                 produtosOk |-> g.produtosOk,
                                 chamadas  |-> g.chamadas \cup chamada,
                                 falhou    |-> g.falhou \cup falha]),
       !.i = @ + 1,
       !.pc = IF g.i < g.n THEN "pedido" ELSE "fim",
       !.existia = FALSE, !.contatoOk = FALSE, !.produtosOk = {},
       !.nfseId = 0, !.chamadas = {}, !.falhou = {}]

Avancar(g, pc, chamada, falha) ==
    [g EXCEPT !.pc = pc, !.chamadas = @ \cup chamada, !.falhou = @ \cup falha]

\* POST /bling/gerar-rps with a non-empty list of order ids: request A sends
\* a batch, request B, racing with it, sends a single order
IniciarGerar(r) ==
    /\ gen[r].pc = "ocioso"
    /\ \E n \in 1..(IF r = "A" THEN MaxLote ELSE 1) :
         gen' = [gen EXCEPT ![r] = [GenOcioso EXCEPT !.pc = "pedido", !.n = n]]
    /\ UNCHANGED <<fila, nfses, falhas>>

\* ensureValidToken: if (!this.tokens) throw
SemCredencial == ~tokens.held

\* the token cache a generate request finds: empty, or tokens that stay valid
\* for the whole request (now < expires_at - 5 min, so no refresh is due)
TokensGerar ==
    {[held |-> FALSE, access_token |-> 0, refresh_token |-> FALSE, expires_at |-> 0],
     [held |-> TRUE, access_token |-> 101, refresh_token |-> TRUE, expires_at |-> 600]}

\* 1. obterDetalhesPedidoVenda (makeAuthenticatedRequest awaits
\* ensureValidToken first)  2. isConsumidorFinal
ObterPedido(r) ==
    /\ gen[r].pc = "pedido"
    /\ \E pedidoId \in PedidoIds :
        LET g == gen[r]
            g1 == [g EXCEPT !.lote = Append(@, pedidoId),
                            !.existia =
                               \E k \in 1..Len(fila) : fila[k].pedidoVendaId = pedidoId]
        IN
        /\ \/ /\ SemCredencial
              /\ falhas' = falhas
              /\ gen' = [gen EXCEPT ![r] =
                           Proximo(g1, "erro", "autenticacao", {"pedido"}, {"pedido"})]
           \/ /\ ~SemCredencial
              /\ PodeFalhar
              /\ falhas' = falhas + 1
              /\ gen' = [gen EXCEPT ![r] =
                           Proximo(g1, "erro", "excecao", {"pedido"}, {"pedido"})]
           \/ /\ ~SemCredencial
              /\ falhas' = falhas
              /\ gen' = [gen EXCEPT ![r] =
                           IF isConsumidorFinal(Pedido(pedidoId))
                           THEN Proximo(g1, "ignorado", "consumidor_final", {"pedido"}, {})
                           ELSE Avancar(g1, "existente", {"pedido"}, {})]
    /\ UNCHANGED <<fila, nfses>>

\* 3. rpsService.buscarPorPedidoId
BuscarExistente(r) ==
    LET g == gen[r]
        pedidoId == g.lote[g.i]
    IN  /\ g.pc = "existente"
        /\ \E lido \in BOOLEAN :
             /\ lido \/ PodeFalhar
             /\ falhas' = IF lido THEN falhas ELSE falhas + 1
             /\ gen' = [gen EXCEPT ![r] =
                          IF buscarPorPedidoId(fila, pedidoId, lido) # 0
                          THEN Proximo(g, "ignorado", "ja_existe", {"existente"},
                                       IF lido THEN {} ELSE {"existente"})
                          ELSE Avancar(g, "contato", {"existente"},
                                       IF lido THEN {} ELSE {"existente"})]
        /\ UNCHANGED <<fila, nfses>>

\* 4. obterDetalhesContato: null on any failure, it never raises
ObterContato(r) ==
    LET g == gen[r]
    IN  /\ g.pc = "contato"
        /\ \E ok \in BOOLEAN :
             /\ ok \/ PodeFalhar
             /\ falhas' = IF ok THEN falhas ELSE falhas + 1
             /\ gen' = [gen EXCEPT ![r] =
                          [Avancar(g, "itens", {"contato"}, IF ok THEN {} ELSE {"contato"})
                             EXCEPT !.contatoOk = ok]]
        /\ UNCHANGED <<fila, nfses>>

\* variant: every product read counts as a service
EhServicoQualquerTipo(produtoId) == TRUE
\* produto.tipo === 'S'
EhServico(produtoId) == TipoProduto(produtoId) = "S"

\* 5. the item loop: the items whose product was read and is a service
Servicos(pedido, lidos) ==
    {k \in lidos : EhServico(pedido.itens[k])}

\* variant: the payload is built whatever the contact read returned
PayloadLevantaNunca(contatoOk) == FALSE
\* construirPayloadNFSe reads contato.id: a null contato raises a TypeError
PayloadLevanta(contatoOk) == ~contatoOk

\* 5. obterDetalhesProduto per item (a failed lookup is logged and skipped)
\* 6. servicos.length === 0   8. construirPayloadNFSe (reads contato.id)
ClassificarItens(r) ==
    LET g == gen[r]
        pedido == Pedido(g.lote[g.i])
        todos == 1..Len(pedido.itens)
    IN  /\ g.pc = "itens"
        /\ \E lidos \in SUBSET todos :
             /\ lidos = todos \/ PodeFalhar
             /\ falhas' = IF lidos = todos THEN falhas ELSE falhas + 1
             /\ LET g1 == [g EXCEPT !.produtosOk = lidos]
                    ch == IF todos = {} THEN {} ELSE {"produto"}
                    fa == IF lidos = todos THEN {} ELSE {"produto"}
                IN  gen' = [gen EXCEPT ![r] =
                              IF Servicos(pedido, lidos) = {}
                              THEN Proximo(g1, "ignorado", "sem_servicos", ch, fa)
                              ELSE IF PayloadLevanta(g.contatoOk)
                              THEN Proximo(g1, "erro", "excecao", ch, fa)
                              ELSE Avancar(g1, "emitir", ch, fa)]
        /\ UNCHANGED <<fila, nfses>>

\* 9. makeAuthenticatedRequest('/Api/v3/nfse', POST)
EmitirNFSe(r) ==
    LET g == gen[r]
    IN  /\ g.pc = "emitir"
        /\ \/ /\ PodeFalhar
              /\ falhas' = falhas + 1
              /\ gen' = [gen EXCEPT ![r] =
                           Proximo(g, "erro", "excecao", {"emitir"}, {"emitir"})]
              /\ nfses' = nfses
           \/ /\ falhas' = falhas
              /\ nfses' = Append(nfses, g.lote[g.i])
              /\ gen' = [gen EXCEPT ![r] =
                           [Avancar(g, "criar", {"emitir"}, {})
                              EXCEPT !.nfseId = Len(nfses) + 1]]
        /\ fila' = fila

\* variant: the row saved as already submitted
DadosRPSProcessando(pedidoId, nfseId) ==
    [pedidoVendaId |-> pedidoId, nfseId |-> nfseId, status |-> "processando"]
\* the row generate saves: status 'pendente', nfseId of the emission response
DadosRPS(pedidoId, nfseId) ==
    [pedidoVendaId |-> pedidoId, nfseId |-> nfseId, status |-> "pendente"]

\* 10. rpsService.criar, then processados++ and the 'sucesso' entry
CriarRPS(r) ==
    LET g == gen[r]
        pedidoId == g.lote[g.i]
    IN  /\ g.pc = "criar"
        /\ \/ /\ PodeFalhar \/ ~IndiceUnicoPermite(fila, pedidoId)
              /\ falhas' = IF IndiceUnicoPermite(fila, pedidoId) THEN falhas + 1 ELSE falhas
              /\ gen' = [gen EXCEPT ![r] =
                           Proximo(g, "erro", "excecao", {"criar"}, {"criar"})]
              /\ fila' = fila
           \/ /\ IndiceUnicoPermite(fila, pedidoId)
              /\ falhas' = falhas
              /\ fila' = criar(fila, DadosRPS(pedidoId, g.nfseId))
              /\ gen' = [gen EXCEPT ![r] =
                           Proximo(g, "sucesso", "gerado", {"criar"}, {})]
        /\ nfses' = nfses

InitFilaParado ==
    /\ env = [pc |-> "ocioso"]
    /\ sinc = [pc |-> "ocioso"]
    /\ ult = [op |-> "nenhuma"]

InitTokenParado ==
    /\ tokens = [held |-> FALSE, access_token |-> 0, refresh_token |-> FALSE,
                 expires_at |-> 0]
    /\ agora = 0
    /\ redeTok = 0
    /\ ultTok = [op |-> "nenhuma"]
    /\ disco = 0

\* no buscarSituacaoNFSe call started
PollOcioso ==
    [pc |-> "ocioso", tentativa |-> 0, leituras |-> 0, espera |-> 0,
     hist |-> <<>>, retorno |-> "nenhum"]

\* nothing being emitted
ItemNenhum == [fluxo |-> "nenhum"]

\* no authorization URL generated yet
StatesVazio == [set |-> {}, timers |-> {}, emitidos |-> {}, verificados |-> {}, n |-> 0]

InitAuxParado ==
    /\ poll = PollOcioso
    /\ item = ItemNenhum
    /\ states = StatesVazio
    /\ resolucao = [pc |-> "ocioso"]
    /\ inicio = [pc |-> "em_servico"]

InitGerar ==
    /\ fila = <<>>
    /\ nfses = <<>>
    /\ gen = [r \in Reqs |-> GenOcioso]
    /\ falhas = 0
    /\ InitFilaParado
    /\ tokens \in TokensGerar
    /\ agora = 0
    /\ redeTok = 0
    /\ ultTok = [op |-> "nenhuma"]
    /\ disco = 0
    /\ InitAuxParado

\* gerarRPSParaPedidos of either request, at the await point it has reached
NextGerar ==
    \E r \in Reqs :
      \/ IniciarGerar(r) /\ UNCHANGED <<varsFila, varsToken, varsAux>>
      \/ ObterPedido(r) /\ UNCHANGED <<varsFila, varsToken, varsAux>>
      \/ BuscarExistente(r) /\ UNCHANGED <<varsFila, varsToken, varsAux>>
      \/ ObterContato(r) /\ UNCHANGED <<varsFila, varsToken, varsAux>>
      \/ ClassificarItens(r) /\ UNCHANGED <<varsFila, varsToken, varsAux>>
      \/ EmitirNFSe(r) /\ UNCHANGED <<varsFila, varsToken, varsAux>>
      \/ CriarRPS(r) /\ UNCHANGED <<varsFila, varsToken, varsAux>>

SpecGerar == InitGerar /\ [][NextGerar]_vars

(***************************************************************************)
(* The NFSe as the ERP reports it: GET /nfse/{id} and POST /nfse/{id}/enviar *)
(***************************************************************************)
Numeros == {"000123", "000456"}
SituacoesNFSe == 0..4

\* what a remote read can answer: a failure (non-2xx, network error), a body
\* without data, or data with situacao and numero (NULL when absent)
Leituras ==
    {[tipo |-> "falha", situacao |-> 0, numero |-> NULL],
     [tipo |-> "vazio", situacao |-> 0, numero |-> NULL]}
    \cup [tipo : {"ok"}, situacao : SituacoesNFSe, numero : {NULL} \cup Numeros]

\* what the submission call can answer
Envios ==
    {[tipo |-> "falha", numero |-> NULL]}
    \cup [tipo : {"ok"}, numero : {NULL} \cup Numeros]

\* RpsService.atualizar: repository.update(id, data), a partial update
atualizar(tab, id, data) ==
    [tab EXCEPT ![id] = data @@ tab[id]]

\* RpsService.buscarPorId: the row, or null (0) when absent or on a store error
buscarPorId(tab, id, lido) ==
    IF lido /\ id \in 1..Len(tab) THEN id ELSE 0

Reverse(s) == [k \in 1..Len(s) |-> s[Len(s) + 1 - k]]

\* RpsService.listarFila({pagina, limite, status}): the page of the rows of
\* that status, newest first (skip (pagina - 1) * limite, take limite); a store
\* error is caught and answers the empty list
listarFila(tab, status, lido, pagina, limite) ==
    IF lido
    THEN LET todas == Reverse(SelectSeq(tab, LAMBDA row : row.status = status))
             skip == (pagina - 1) * limite
             fim == IF Len(todas) < skip + limite THEN Len(todas) ELSE skip + limite
         IN  SubSeq(todas, skip + 1, fim)
    ELSE <<>>

(***************************************************************************)
(* enviarNFSeParaPrefeitura: one action per iteration of the loop          *)
(***************************************************************************)
MaxRps == 1      \* rows in the queue store at the start of SpecEnvio
MaxEnvios == 1   \* longest list of row ids passed to submit

\* variant: situacao === 2 && numero
JaEmitidaSoComNumero(situacao, numero) == numero # NULL /\ situacao = 2
\* the compensating check: situacao === 2 || numero
JaEmitida(situacao, numero) == situacao = 2 \/ numero # NULL

\* variant: a response is never taken as carrying a number
TemNumeroNunca(envio) == FALSE
\* if (response?.data?.numero)
TemNumero(envio) == envio.numero # NULL

\* variant: the catch block goes straight to the 'erro' update
TentaReleituraNunca(row) == FALSE
\* the catch block: if (rps?.nfseId) the invoice is read back by its NFSe id
TentaReleitura(row) == row.nfseId # 0

\* POST /bling/enviar-nfse with a non-empty list of row ids: n is
\* rpsIds.length, ids holds the ids the loop has reached (each id is drawn,
\* among the rows of the table and one absent id, when the loop reaches it)
IniciarEnvio ==
    /\ env.pc = "ocioso"
    /\ \E n \in 1..MaxEnvios :
         env' = [pc |-> "laco", ids |-> <<>>, n |-> n, i |-> 1, enviados |-> 0,
                 resultados |-> <<>>]
    /\ UNCHANGED <<fila, falhas, sinc, ult>>

\* the outcome of one iteration: the table after it, the entry pushed
\* ("excecao" when the iteration raises out of the function), the calls made
\* bd: the atualizar calls that raise if reached; lido: buscarPorId answers
IteracaoEnvio(tab, rpsId, lido, envio, leitura, bd) ==
    LET rps == buscarPorId(tab, rpsId, lido)
        t1 == IF "processando" \in bd THEN tab
              ELSE atualizar(tab, rpsId, [status |-> "processando"])
        enviou == "processando" \notin bd
        \* the try block ends without raising
        tentativaOk ==
            /\ enviou /\ envio.tipo = "ok"
            /\ (TemNumero(envio) => "emitido" \notin bd)
        \* the catch block: compensating read, then the 'erro' update
        releu == TentaReleitura(tab[rps])
        leu == /\ releu /\ leitura.tipo = "ok"
               /\ JaEmitida(leitura.situacao, leitura.numero)
        recuperou == leu /\ "recuperado" \notin bd
        base == [tab |-> tab, status |-> "erro", numero |-> NULL, enviou |-> FALSE,
                 releu |-> FALSE, excecao |-> FALSE, enviado |-> 0]
    IN  IF rps = 0 THEN [base EXCEPT !.status = "erro"]
        ELSE IF tab[rps].nfseId = 0 THEN [base EXCEPT !.status = "erro"]
        ELSE IF tentativaOk
        THEN IF TemNumero(envio)
             THEN [base EXCEPT
                     !.tab = atualizar(t1, rpsId, [status |-> "emitido",
                                                   numeroNFSe |-> envio.numero]),
                     !.status = "sucesso", !.numero = envio.numero,
                     !.enviou = TRUE, !.enviado = 1]
             ELSE [base EXCEPT !.tab = t1, !.status = "processando", !.enviou = TRUE]
        ELSE IF recuperou
        THEN [base EXCEPT
                !.tab = atualizar(t1, rpsId, [status |-> "emitido",
                                              numeroNFSe |-> leitura.numero]),
                !.status = "sucesso", !.numero = leitura.numero,
                !.enviou = enviou, !.releu = releu, !.excecao = TRUE, !.enviado = 1]
        ELSE IF "erro" \in bd
        THEN [base EXCEPT !.tab = t1, !.status = "excecao", !.enviou = enviou,
                          !.releu = releu, !.excecao = TRUE]
        ELSE [base EXCEPT
                !.tab = atualizar(t1, rpsId, [status |-> "erro",
                                              mensagemErro |-> "envio"]),
                !.status = "erro", !.enviou = enviou, !.releu = releu, !.excecao = TRUE]

\* the atualizar calls an iteration reaches, in order
ChamadasBD == {"processando", "emitido", "recuperado", "erro"}

EnviarRegistro ==
    /\ env.pc = "laco"
    /\ \E rpsId \in 1..Len(fila) + 1, lido \in BOOLEAN, bd \in SUBSET ChamadasBD :
         LET nFalhas == Cardinality(bd) + (IF lido THEN 0 ELSE 1)
             existe == rpsId \in 1..Len(fila)
         IN  /\ falhas + nFalhas <= MaxFalhas
             /\ (bd # {} => (existe /\ lido /\ fila[rpsId].nfseId # 0))
             /\ falhas' = falhas + nFalhas
             /\ \E envio \in Envios, leitura \in Leituras :
                  \E it \in {IteracaoEnvio(fila, rpsId, lido, envio, leitura, bd)} :
                    \* only inputs the iteration consumes are varied
                    /\ (~it.enviou => envio = [tipo |-> "falha", numero |-> NULL])
                    /\ (~it.releu =>
                          leitura = [tipo |-> "falha", situacao |-> 0, numero |-> NULL])
                    /\ ("emitido" \in bd =>
                          (it.enviou /\ envio.tipo = "ok" /\ envio.numero # NULL))
                    /\ ("recuperado" \in bd =>
                          (it.releu /\ leitura.tipo = "ok"
                             /\ JaEmitida(leitura.situacao, leitura.numero)))
                    /\ ("erro" \in bd => (it.excecao /\ it.status # "sucesso"))
                    /\ fila' = it.tab
                    /\ ult' = [op |-> "enviar", id |-> rpsId,
                               antes |-> IF existe THEN fila[rpsId] ELSE [status |-> NULL],
                               achou |-> existe /\ lido,
                               envio |-> IF it.enviou THEN envio.tipo ELSE "nao_chamado",
                               numeroEnvio |-> envio.numero,
                               leitura |-> IF it.releu THEN leitura.tipo ELSE "nao_chamada",
                               situacao |-> leitura.situacao, numero |-> leitura.numero,
                               bd |-> bd, resultado |-> it.status,
                               numeroResultado |-> it.numero]
                    /\ env' = IF it.status = "excecao"
                              THEN [env EXCEPT !.pc = "excecao",
                                               !.ids = Append(@, rpsId)]
                              ELSE [env EXCEPT
                                      !.ids = Append(@, rpsId),
                                      !.resultados = Append(@, it.status),
                                      !.enviados = @ + it.enviado,
                                      !.i = @ + 1,
                                      !.pc = IF env.i < env.n THEN "laco" ELSE "fim"]
    /\ UNCHANGED sinc

(***************************************************************************)
(* sincronizarStatusNFSe: the three list queries, then one action per row  *)
(***************************************************************************)
MaxRpsSinc == 2  \* rows in the queue store at the start of SpecSinc

\* variant: situacao 0 leaves the status as it is
NovoStatusSemPendente(situacao, atual) ==
    IF situacao = 1 \/ situacao = 2 THEN "emitido"
    ELSE IF situacao = 3 THEN "erro"
    ELSE atual
\* Situacao: 0=Pendente, 1=Emitida, 2=Disponivel, 3=Cancelada
NovoStatus(situacao, atual) ==
    IF situacao = 1 \/ situacao = 2 THEN "emitido"
    ELSE IF situacao = 3 THEN "erro"
    ELSE IF situacao = 0 THEN "pendente"
    ELSE atual

LimiteSinc == 1000   \* limite: 1000 of the three list queries of sync

\* variant: every 'emitido' row is verified, with or without number
RpsParaVerificarSemFiltro(tab, lidos) ==
    listarFila(tab, "pendente", "pendente" \in lidos, 1, LimiteSinc)
    \o listarFila(tab, "processando", "processando" \in lidos, 1, LimiteSinc)
    \o listarFila(tab, "emitido", "emitido" \in lidos, 1, LimiteSinc)
\* rpsParaVerificar = [...rpsPendentes, ...rpsProcessando, ...emitidosSemNumero]
RpsParaVerificar(tab, lidos) ==
    listarFila(tab, "pendente", "pendente" \in lidos, 1, LimiteSinc)
    \o listarFila(tab, "processando", "processando" \in lidos, 1, LimiteSinc)
    \o SelectSeq(listarFila(tab, "emitido", "emitido" \in lidos, 1, LimiteSinc),
                 LAMBDA row : row.numeroNFSe = NULL)

ListasSinc == {"pendente", "processando", "emitido"}

\* POST /bling/sincronizar-nfse
IniciarSinc ==
    /\ sinc.pc = "ocioso"
    /\ \E lidos \in SUBSET ListasSinc :
         LET nFalhas == Cardinality(ListasSinc \ lidos)
             lista == RpsParaVerificar(fila, lidos)
         IN  /\ falhas + nFalhas <= MaxFalhas
             /\ falhas' = falhas + nFalhas
             /\ sinc' = [pc |-> IF lista = <<>> THEN "fim" ELSE "laco",
                         lista |-> lista, lidos |-> lidos, i |-> 1,
                         atualizados |-> 0, corrigidos |-> 0,
                         verificados |-> Len(lista)]
    /\ UNCHANGED <<fila, env, ult>>

\* variant: the catch block resets whatever row it was reading
VoltaParaPendenteSempre(rps) == TRUE
\* the catch block: if (rps.status === 'emitido' && !rps.numeroNFSe)
VoltaParaPendente(rps) == rps.status = "emitido" /\ rps.numeroNFSe = NULL

\* variant: every write of the try block counts as an ordinary update
ContaCorrigidoNunca(rps, numero) == FALSE
\* if (rps.status === 'emitido' && !rps.numeroNFSe && nfse.numero) corrigidos++
ContaCorrigido(rps, numero) ==
    rps.status = "emitido" /\ rps.numeroNFSe = NULL /\ numero # NULL

\* one iteration over the listed row rps (a snapshot taken by IniciarSinc)
\* bd: the atualizar calls that raise if reached
IteracaoSinc(tab, rps, leitura, bd) ==
    LET novoStatus == NovoStatus(leitura.situacao, rps.status)
        precisaAtualizar ==
            \/ novoStatus # rps.status
            \/ (leitura.numero # NULL /\ leitura.numero # rps.numeroNFSe)
        semNumero == rps.status = "emitido" /\ rps.numeroNFSe = NULL
        \* the try block raises: the remote read failed or the update did
        capturou ==
            \/ leitura.tipo = "falha"
            \/ (leitura.tipo = "ok" /\ precisaAtualizar /\ "atualizar" \in bd)
        base == [tab |-> tab, atualizados |-> 0, corrigidos |-> 0,
                 leu |-> TRUE, excecao |-> FALSE, escreveu |-> FALSE]
    IN  IF rps.nfseId = 0 THEN [base EXCEPT !.leu = FALSE]
        ELSE IF capturou
        THEN IF VoltaParaPendente(rps)
             THEN IF "resetar" \in bd
                  THEN [base EXCEPT !.excecao = TRUE]
                  ELSE [base EXCEPT
                          !.tab = atualizar(tab, rps.id,
                                            [status |-> "pendente",
                                             mensagemErro |-> "nao_encontrada"]),
                          !.corrigidos = 1, !.escreveu = TRUE]
             ELSE base
        ELSE IF leitura.tipo = "ok" /\ precisaAtualizar
        THEN [base EXCEPT
                !.tab = atualizar(tab, rps.id,
                                  [status |-> novoStatus,
                                   numeroNFSe |-> IF leitura.numero # NULL
                                                  THEN leitura.numero
                                                  ELSE rps.numeroNFSe]),
                !.corrigidos = IF ContaCorrigido(rps, leitura.numero) THEN 1 ELSE 0,
                !.atualizados = IF ContaCorrigido(rps, leitura.numero) THEN 0 ELSE 1,
                !.escreveu = TRUE]
        ELSE base

ChamadasBDSinc == {"atualizar", "resetar"}

SincRegistro ==
    /\ sinc.pc = "laco"
    /\ \E leitura \in Leituras, bd \in SUBSET ChamadasBDSinc :
         LET rps == sinc.lista[sinc.i]
             it == IteracaoSinc(fila, rps, leitura, bd)
             novo == NovoStatus(leitura.situacao, rps.status)
             precisa == novo # rps.status
                        \/ (leitura.numero # NULL /\ leitura.numero # rps.numeroNFSe)
             semNumero == rps.status = "emitido" /\ rps.numeroNFSe = NULL
         IN  /\ falhas + Cardinality(bd) <= MaxFalhas
             \* only inputs the iteration consumes are varied
             /\ (~it.leu => leitura = [tipo |-> "falha", situacao |-> 0, numero |-> NULL])
             /\ ("atualizar" \in bd => (it.leu /\ leitura.tipo = "ok" /\ precisa))
             /\ ("resetar" \in bd =>
                   (it.leu /\ semNumero
                      /\ (leitura.tipo = "falha" \/ "atualizar" \in bd)))
             /\ falhas' = falhas + Cardinality(bd)
             /\ fila' = it.tab
             /\ ult' = [op |-> "sinc", id |-> rps.id,
                        antes |-> fila[rps.id],
                        listado |-> rps.status,
                        leitura |-> IF it.leu THEN leitura.tipo ELSE "nao_chamada",
                        situacao |-> leitura.situacao, numero |-> leitura.numero,
                        bd |-> bd, escreveu |-> it.escreveu,
                        atualizados |-> it.atualizados,
                        corrigidos |-> it.corrigidos,
                        resultado |-> IF it.excecao THEN "excecao" ELSE "ok"]
             /\ sinc' = IF it.excecao
                        THEN [sinc EXCEPT !.pc = "excecao"]
                        ELSE [sinc EXCEPT
                                !.atualizados = @ + it.atualizados,
                                !.corrigidos = @ + it.corrigidos,
                                !.i = @ + 1,
                                !.pc = IF sinc.i < Len(sinc.lista) THEN "laco" ELSE "fim"]
    /\ UNCHANGED env

\* the rows the store can hold. A row comes from generate ('pendente', no
\* number); submit and sync skip a row without NFSe id, so such a row stays as
\* inserted, and a row with NFSe id can reach any status with or without number
LinhasIniciais(k) ==
    [id : {k}, pedidoVendaId : {k}, nfseId : {k},
     status : {"pendente", "processando", "emitido", "erro"},
     numeroNFSe : {NULL, "000123"}, mensagemErro : {NULL}]
    \cup [id : {k}, pedidoVendaId : {k}, nfseId : {0},
          status : {"pendente"}, numeroNFSe : {NULL}, mensagemErro : {NULL}]

\* the tables of 1..max rows
FilasIniciais(max) ==
    UNION {{t \in [1..n -> UNION {LinhasIniciais(k) : k \in 1..n}] :
              \A k \in 1..n : t[k] \in LinhasIniciais(k)} : n \in 1..max}

InitEnvio ==
    /\ fila \in FilasIniciais(MaxRps)
    /\ nfses = <<>>
    /\ gen = [r \in Reqs |-> GenOcioso]
    /\ falhas = 0
    /\ InitFilaParado
    /\ InitTokenParado
    /\ InitAuxParado

InitSinc ==
    /\ fila \in FilasIniciais(MaxRpsSinc)
    /\ nfses = <<>>
    /\ gen = [r \in Reqs |-> GenOcioso]
    /\ falhas = 0
    /\ InitFilaParado
    /\ InitTokenParado
    /\ InitAuxParado

NextEnvio ==
    \/ IniciarEnvio /\ UNCHANGED <<nfses, gen, varsToken, varsAux>>
    \/ EnviarRegistro /\ UNCHANGED <<nfses, gen, varsToken, varsAux>>

NextSinc ==
    \/ IniciarSinc /\ UNCHANGED <<nfses, gen, varsToken, varsAux>>
    \/ SincRegistro /\ UNCHANGED <<nfses, gen, varsToken, varsAux>>

\* one submit request over the queue store
SpecEnvio == InitEnvio /\ [][NextEnvio]_vars

\* one sync request over the queue store
SpecSinc == InitSinc /\ [][NextSinc]_vars

(***************************************************************************)
(* TokenManager: the in-memory token cache of BlingService                 *)
(***************************************************************************)
Margem == 300         \* 5 * 60 * 1000 ms, in seconds
MaxRede == 2          \* requests to the token endpoint per behaviour
Horizonte == 3        \* the clock runs from 0 to Horizonte * Margem seconds

\* expires_in of a token response, in seconds
ExpiraEm == {120, 299, 300, 301, 600}
\* how far the clock moves between two calls
Passos == {60, 300}
\* the instants SpecToken can reach
Instantes == 0..(Horizonte * Margem)
\* access tokens a caller hands to setTokens (the endpoint's n-th answer is n)
TokensManuais == {101}

SemTokens ==
    [held |-> FALSE, access_token |-> 0, refresh_token |-> FALSE, expires_at |-> 0]

\* no tokens file
SemArquivo == 0

\* saveTokens: writes the tokens file; a failure to write is logged and swallowed.
\* The file is identified by the access token it holds: every token response has
\* its own access token, so equal access tokens mean equal files.
saveTokens(arquivo, tok, falha) == IF falha THEN arquivo ELSE tok.access_token

\* deleteTokensFile: removes the tokens file; a failure is logged and swallowed
deleteTokensFile(arquivo, falha) == IF falha THEN arquivo ELSE SemArquivo

\* the token endpoint's answers to a refresh grant
RespostasToken ==
    {[ok |-> FALSE, expires_in |-> 0]} \cup [ok : {TRUE}, expires_in : ExpiraEm]

\* variant: a failed refresh drops the cached tokens
respostaRefreshLimpaNaFalha(tok, now, resposta, n) ==
    IF ~resposta.ok
    THEN [tokens |-> SemTokens, excecao |-> TRUE, rede |-> 1, salvou |-> FALSE]
    ELSE [tokens |-> [held |-> TRUE, access_token |-> n + 1, refresh_token |-> TRUE,
                      expires_at |-> now + resposta.expires_in],
          excecao |-> FALSE, rede |-> 1, salvou |-> TRUE]

\* refreshAccessToken from the answer of its fetch on: tok is the cache and now
\* the clock when the answer arrives
respostaRefresh(tok, now, resposta, n) ==
    IF ~resposta.ok
    THEN [tokens |-> tok, excecao |-> TRUE, rede |-> 1, salvou |-> FALSE]
    ELSE [tokens |-> [held |-> TRUE, access_token |-> n + 1, refresh_token |-> TRUE,
                      expires_at |-> now + resposta.expires_in],
          excecao |-> FALSE, rede |-> 1, salvou |-> TRUE]

\* variant: the refresh grant is sent whatever the cache holds
refreshAccessTokenSemGuarda(tok, now, resposta, n) ==
    IF ~resposta.ok
    THEN [tokens |-> tok, excecao |-> TRUE, rede |-> 1, salvou |-> FALSE]
    ELSE [tokens |-> [held |-> TRUE, access_token |-> n + 1, refresh_token |-> TRUE,
                      expires_at |-> now + resposta.expires_in],
          excecao |-> FALSE, rede |-> 1, salvou |-> TRUE]

\* refreshAccessToken: the cache after the call, whether it raised, and the
\* number of requests sent to the token endpoint
refreshAccessToken(tok, now, resposta, n) ==
    IF ~tok.held \/ ~tok.refresh_token
    THEN [tokens |-> tok, excecao |-> TRUE, rede |-> 0, salvou |-> FALSE]
    ELSE respostaRefresh(tok, now, resposta, n)

\* variant: refresh only once the token has expired
PrecisaRenovarSemMargem(now, expiresAt) == now >= expiresAt
\* now >= (expiresAt - 5 * 60 * 1000)
PrecisaRenovar(now, expiresAt) == now >= expiresAt - Margem

\* ensureValidToken: the cache after the call, the access token returned (0
\* when it raises), whether refreshAccessToken was called, the requests sent
ensureValidToken(tok, now, resposta, n) ==
    IF ~tok.held
    THEN [tokens |-> tok, excecao |-> TRUE, retorno |-> 0, renovou |-> FALSE, rede |-> 0,
          salvou |-> FALSE]
    ELSE IF PrecisaRenovar(now, tok.expires_at)
    THEN LET r == refreshAccessToken(tok, now, resposta, n)
         IN  [tokens |-> r.tokens, excecao |-> r.excecao,
              retorno |-> IF r.excecao THEN 0 ELSE r.tokens.access_token,
              renovou |-> TRUE, rede |-> r.rede, salvou |-> r.salvou]
    ELSE [tokens |-> tok, excecao |-> FALSE, retorno |-> tok.access_token,
          renovou |-> FALSE, rede |-> 0, salvou |-> FALSE]

\* setTokens(tokens) with no expires_at in the argument
SetTokens ==
    /\ \E expira \in ExpiraEm, comRefresh \in BOOLEAN, t \in TokensManuais :
         tokens' = [held |-> TRUE, access_token |-> t,
                    refresh_token |-> comRefresh, expires_at |-> agora + expira]
    /\ UNCHANGED <<agora, redeTok, ultTok, disco>>

\* clearTokens: drops the cache and removes the tokens file
ClearTokens ==
    /\ tokens.held \/ disco # SemArquivo
    /\ tokens' = SemTokens
    /\ \E falhaDisco \in BOOLEAN : disco' = deleteTokensFile(disco, falhaDisco)
    /\ UNCHANGED <<agora, redeTok, ultTok>>

\* a caller (makeAuthenticatedRequest, ...) awaits ensureValidToken
EnsureValidToken ==
    /\ \E resposta \in RespostasToken :
         \E r \in {ensureValidToken(tokens, agora, resposta, redeTok)} :
           /\ redeTok + r.rede <= MaxRede
           /\ (r.rede = 0 => resposta = [ok |-> FALSE, expires_in |-> 0])
           /\ tokens' = r.tokens
           /\ \E falhaDisco \in BOOLEAN :
                /\ (~r.salvou => ~falhaDisco)
                /\ disco' = IF r.salvou THEN saveTokens(disco, r.tokens, falhaDisco)
                                        ELSE disco
           /\ redeTok' = redeTok + r.rede
           /\ ultTok' = [op |-> "ensure", held |-> tokens.held,
                         restante |-> tokens.expires_at - agora,
                         renovou |-> r.renovou, rede |-> r.rede,
                         excecao |-> r.excecao,
                         retornouCache |-> r.retorno = tokens.access_token,
                         inalterado |-> r.tokens = tokens]
    /\ UNCHANGED agora

Tique ==
    /\ \E d \in Passos :
         /\ agora + d \in Instantes
         /\ agora' = agora + d
    /\ UNCHANGED <<tokens, redeTok, ultTok, disco>>

InitToken ==
    /\ tokens = SemTokens
    /\ agora = 0
    /\ redeTok = 0
    /\ ultTok = [op |-> "nenhuma"]
    /\ disco = SemArquivo
    /\ fila = <<>>
    /\ nfses = <<>>
    /\ gen = [r \in Reqs |-> GenOcioso]
    /\ falhas = 0
    /\ InitFilaParado
    /\ InitAuxParado

NextToken ==
    \/ SetTokens /\ UNCHANGED <<varsGerar, varsFila, varsAux>>
    \/ ClearTokens /\ UNCHANGED <<varsGerar, varsFila, varsAux>>
    \/ EnsureValidToken /\ UNCHANGED <<varsGerar, varsFila, varsAux>>
    \/ Tique /\ UNCHANGED <<varsGerar, varsFila, varsAux>>

SpecToken == InitToken /\ [][NextToken]_vars

(***************************************************************************)
(* buscarSituacaoNFSe: polling the invoice until it carries a number       *)
(***************************************************************************)
MaxTentativas == 5            \* maxTentativas
DelayEntreTentativas == 40    \* delayEntreTentativas, 40000 ms, in seconds

\* what one attempt can meet:
\*   token      ensureValidToken raises (nothing is sent for the invoice)
\*   abort      the fetch is aborted by the 30 s timer
\*   rede       the fetch rejects
\*   http       a non-2xx response
\*   http_text  a non-2xx response whose body cannot be read
\*   json       a 2xx response whose body is not JSON
\*   nulo       a 2xx response whose JSON is null
\*   sem_numero a 2xx response without data.numero
\*   numero     a 2xx response with data.numero
RespostasPoll ==
    {"token", "abort", "rede", "http", "http_text", "json", "nulo",
     "sem_numero", "numero"}

\* the responses at which a statement of the try block raises
LevantamPoll == {"token", "abort", "rede", "http_text", "json", "nulo"}

\* variant: the last attempt also waits and continues
TemMaisTentativasAteUltima(tentativa) == tentativa <= MaxTentativas
\* if (tentativa < maxTentativas)
TemMaisTentativas(tentativa) == tentativa < MaxTentativas

\* one pass of the loop body: whether the invoice was requested, the branch
\* taken, whether the function returns and what, and the wait before continue
Tentativa(resposta, tentativa) ==
    LET leu == resposta # "token"
        via == IF resposta \in LevantamPoll THEN "catch"
               ELSE IF resposta = "http" THEN "nao_ok"
               ELSE IF resposta = "numero" THEN "numero"
               ELSE "sem_numero"
    IN  IF via = "numero"
        THEN [leu |-> leu, via |-> via, retorna |-> TRUE, retorno |-> "000123",
              espera |-> 0]
        ELSE IF TemMaisTentativas(tentativa)
        THEN [leu |-> leu, via |-> via, retorna |-> FALSE, retorno |-> "nenhum",
              espera |-> DelayEntreTentativas]
        ELSE [leu |-> leu, via |-> via, retorna |-> TRUE, retorno |-> NULL,
              espera |-> 0]

\* buscarSituacaoNFSe(idNotaServico): let tentativa = 1
IniciarPoll ==
    /\ poll.pc = "ocioso"
    /\ poll' = [PollOcioso EXCEPT !.pc = "laco", !.tentativa = 1]

\* one iteration of for (...; tentativa <= maxTentativas; tentativa++), and
\* the return null after the loop when its condition fails
TentativaPoll ==
    /\ poll.pc = "laco"
    /\ \E resposta \in RespostasPoll :
         LET t == Tentativa(resposta, poll.tentativa)
             p1 == [poll EXCEPT !.hist = Append(@, resposta),
                                !.leituras = @ + (IF t.leu THEN 1 ELSE 0),
                                !.espera = @ + t.espera]
         IN  poll' = IF t.retorna
                     THEN [p1 EXCEPT !.pc = "fim", !.retorno = t.retorno]
                     ELSE IF poll.tentativa + 1 <= MaxTentativas
                     THEN [p1 EXCEPT !.tentativa = @ + 1]
                     ELSE [p1 EXCEPT !.tentativa = @ + 1, !.pc = "fim",
                                     !.retorno = NULL]

InitPoll ==
    /\ fila = <<>>
    /\ nfses = <<>>
    /\ gen = [r \in Reqs |-> GenOcioso]
    /\ falhas = 0
    /\ InitFilaParado
    /\ InitTokenParado
    /\ InitAuxParado

NextPoll ==
    \/ IniciarPoll /\ UNCHANGED <<varsGerar, varsFila, varsToken, item, states, resolucao, inicio>>
    \/ TentativaPoll /\ UNCHANGED <<varsGerar, varsFila, varsToken, item, states, resolucao, inicio>>

\* one buscarSituacaoNFSe call
SpecPoll == InitPoll /\ [][NextPoll]_vars

(***************************************************************************)
(* The RPS number of an emission payload                                   *)
(***************************************************************************)
MaxEmissoes == 2     \* emission attempts for one order or duplicata

TamanhoRPS == 8      \* 8 - numeroPedido.length, slice(0, 8)

\* 10 ** d
RECURSIVE Pot10(_)
Pot10(d) == IF d = 0 THEN 1 ELSE 10 * Pot10(d - 1)

\* Number.prototype.toString / String(n) of a non-negative integer
RECURSIVE ParaTexto(_)
ParaTexto(n) ==
    LET digito == <<"0","1","2","3","4","5","6","7","8","9">>[(n % 10) + 1]
    IN  IF n < 10 THEN <<digito>> ELSE Append(ParaTexto(n \div 10), digito)

\* variant: no padding
PadStartSemPreencher(texto, tamanho, c) == texto
\* String.prototype.padStart(tamanho, c)
PadStart(texto, tamanho, c) ==
    IF Len(texto) >= tamanho THEN texto
    ELSE [k \in 1..(tamanho - Len(texto)) |-> c] \o texto

\* String.prototype.slice(0, fim)
Slice0(texto, fim) == SubSeq(texto, 1, IF Len(texto) < fim THEN Len(texto) ELSE fim)

\* String.prototype.trim (the blanks are spaces)
RECURSIVE Trim(_)
Trim(texto) ==
    IF texto = <<>> THEN texto
    ELSE IF Head(texto) = " " THEN Trim(Tail(texto))
    ELSE IF texto[Len(texto)] = " " THEN Trim(SubSeq(texto, 1, Len(texto) - 1))
    ELSE texto

\* construirPayloadNFSe: numeroRPS, where aleatorio01 stands for
\* Math.floor(Math.random() * Math.pow(10, digitosRestantes))
NumeroRPSPedido(numero, aleatorio01) ==
    LET numeroPedido == ParaTexto(numero)
        digitosRestantes == TamanhoRPS - Len(numeroPedido)
        aleatorio == IF digitosRestantes > 0
                     THEN PadStart(ParaTexto(aleatorio01), digitosRestantes, "0")
                     ELSE <<>>
    IN  Slice0(numeroPedido \o aleatorio, TamanhoRPS)

\* variant: a new number whatever was supplied
NumeroRPSDuplicataSempreNovo(rpsFornecido, numero, timestamp) ==
    timestamp \o ParaTexto(numero)
\* criarDadosNFSe: numeroRPS, where timestamp is the text of Date.now()
NumeroRPSDuplicata(rpsFornecido, numero, timestamp) ==
    LET rpsExistente == Trim(rpsFornecido)
    IN  IF Len(rpsExistente) > 0 THEN rpsExistente
        ELSE timestamp \o ParaTexto(numero)

\* pedido.numero / duplicata.numero
NumerosItem == {7, 42, 1234567, 12345678, 123456789, 1234567890}

\* values of Math.floor(Math.random() * 10 ** d): 0 <= r < 10 ** d
Aleatorios(d) ==
    {r \in {0, 7, 42, Pot10(d) \div 10, Pot10(d) - 1} : r >= 0 /\ r < Pot10(d)}

\* duplicata.rps as the caller sends it: absent, blank, a number, a padded number
RpsFornecidos == {<<>>, <<" ">>, <<"7","7">>, <<" ","7","7"," ">>}

\* Date.now() as text, at two instants
Timestamps ==
    {<<"1","7","0","0","0","0","0","0","0","0","0","0","0">>,
     <<"1","7","0","0","0","0","0","0","0","0","0","0","1">>}

\* an order (gerarRPSParaPedidos) or a duplicata (processarFilaDuplicatas)
\* reaches the construction of its payload
IniciarItem ==
    /\ item.fluxo = "nenhum"
    /\ \E fluxo \in {"pedido", "duplicata"}, numero \in NumerosItem,
          rpsFornecido \in RpsFornecidos :
         /\ (fluxo = "pedido" => rpsFornecido = <<>>)
         /\ item' = [fluxo |-> fluxo, numero |-> numero, rps |-> rpsFornecido,
                      envios |-> <<>>]

\* construirPayloadNFSe for the order (again on a retry of the order)
ConstruirPayloadNFSe ==
    /\ item.fluxo = "pedido"
    /\ Len(item.envios) < MaxEmissoes
    /\ LET d == TamanhoRPS - Len(ParaTexto(item.numero))
       IN  \E r \in Aleatorios(IF d > 0 THEN d ELSE 0) :
             item' = [item EXCEPT !.envios =
                        Append(@, [rps |-> item.rps, sorteio |-> r,
                                   numeroRPS |-> NumeroRPSPedido(item.numero, r)])]

\* criarDadosNFSe for the duplicata (again on a retry); the caller may keep
\* the number sent in duplicata.rps for the next attempt
CriarDadosNFSe ==
    /\ item.fluxo = "duplicata"
    /\ Len(item.envios) < MaxEmissoes
    /\ \E timestamp \in Timestamps, guarda \in BOOLEAN :
         LET numeroRPS == NumeroRPSDuplicata(item.rps, item.numero, timestamp)
         IN  item' = [item EXCEPT
                        !.envios = Append(@, [rps |-> item.rps, sorteio |-> timestamp,
                                              numeroRPS |-> numeroRPS]),
                        !.rps = IF guarda THEN numeroRPS ELSE @]

InitRPS ==
    /\ fila = <<>>
    /\ nfses = <<>>
    /\ gen = [r \in Reqs |-> GenOcioso]
    /\ falhas = 0
    /\ InitFilaParado
    /\ InitTokenParado
    /\ InitAuxParado

NextRPS ==
    \/ IniciarItem /\ UNCHANGED <<varsGerar, varsFila, varsToken, poll, states, resolucao, inicio>>
    \/ ConstruirPayloadNFSe /\ UNCHANGED <<varsGerar, varsFila, varsToken, poll, states, resolucao, inicio>>
    \/ CriarDadosNFSe /\ UNCHANGED <<varsGerar, varsFila, varsToken, poll, states, resolucao, inicio>>

\* the emission attempts for one order or duplicata
SpecRPS == InitRPS /\ [][NextRPS]_vars

(***************************************************************************)
(* OAuth: generateAuthorizationUrl, exchangeCodeForTokens and a direct     *)
(* refreshAccessToken, under the clock of the token cache                  *)
(***************************************************************************)
MaxEstados == 2       \* generateAuthorizationUrl calls per behaviour
Validade == 600       \* 10 * 60 * 1000 ms, in seconds

\* values of crypto.randomBytes(16).toString('hex'); two draws may coincide
Valores == {"s1", "s2"}
\* a state the service never issued
Forjado == "x"

\* saveState: adds the state and starts the timer that deletes it
saveState(st, state, now) ==
    [st EXCEPT !.set = @ \cup {state},
               !.timers = @ \cup {<<state, now + Validade>>}]

\* variant: the state stays in the set after it was verified
verifyStateSemRemover(set, state) == [valido |-> state \in set, set |-> set]
\* verifyState: whether the state is in the set, and the set after the call
verifyState(set, state) ==
    [valido |-> state \in set, set |-> IF state \in set THEN set \ {state} ELSE set]

\* the token endpoint's answers to an authorization_code grant
RespostasTroca ==
    [tipo : {"abort", "rede", "http"}, expires_in : {0}, refresh_token : {FALSE}]
    \cup [tipo : {"ok"}, expires_in : {300, 600}, refresh_token : BOOLEAN]

\* exchangeCodeForTokens: whether the state was accepted, the set after the
\* call, the cache after the call, the error raised, the requests sent and
\* whether saveTokens was called
exchangeCodeForTokens(set, state, tok, now, resposta, n) ==
    LET v == verifyState(set, state)
    IN  IF ~v.valido
        THEN [aceito |-> FALSE, set |-> v.set, tokens |-> tok, excecao |-> "csrf",
              rede |-> 0, salvou |-> FALSE]
        ELSE IF resposta.tipo = "abort"
        THEN [aceito |-> TRUE, set |-> v.set, tokens |-> tok, excecao |-> "timeout",
              rede |-> 1, salvou |-> FALSE]
        ELSE IF resposta.tipo = "rede"
        THEN [aceito |-> TRUE, set |-> v.set, tokens |-> tok, excecao |-> "rede",
              rede |-> 1, salvou |-> FALSE]
        ELSE IF resposta.tipo = "http"
        THEN [aceito |-> TRUE, set |-> v.set, tokens |-> tok, excecao |-> "falha",
              rede |-> 1, salvou |-> FALSE]
        ELSE [aceito |-> TRUE, set |-> v.set,
              tokens |-> [held |-> TRUE, access_token |-> n + 1,
                          refresh_token |-> resposta.refresh_token,
                          expires_at |-> now + resposta.expires_in],
              excecao |-> "nenhuma", rede |-> 1, salvou |-> TRUE]

\* generateAuthorizationUrl: draws a state and saves it
GenerateAuthorizationUrl ==
    /\ states.n < MaxEstados
    /\ \E state \in Valores :
         states' = [saveState(states, state, agora) EXCEPT
                      !.emitidos = @ \cup {<<state, agora>>},
                      !.verificados = @ \ {state},
                      !.n = @ + 1]
    /\ UNCHANGED <<tokens, agora, redeTok, ultTok, disco>>

\* the callback hands a code and a state to exchangeCodeForTokens
ExchangeCodeForTokens ==
    \E state \in Valores \cup {Forjado}, resposta \in RespostasTroca,
       falhaDisco \in BOOLEAN :
      \E r \in {exchangeCodeForTokens(states.set, state, tokens, agora, resposta,
                                       redeTok)} :
        /\ redeTok + r.rede <= MaxRede
        /\ (r.rede = 0 => resposta.tipo = "abort")
        /\ (~r.salvou => ~falhaDisco)
        /\ tokens' = r.tokens
        /\ disco' = IF r.salvou THEN saveTokens(disco, r.tokens, falhaDisco) ELSE disco
        /\ redeTok' = redeTok + r.rede
        /\ states' = [states EXCEPT
                        !.set = r.set,
                        !.emitidos = IF r.aceito THEN {e \in @ : e[1] # state} ELSE @,
                        !.verificados = IF r.aceito THEN @ \cup {state} ELSE @]
        /\ ultTok' = [op |-> "exchange", state |-> state, aceito |-> r.aceito,
                      emitidos |-> states.emitidos,
                      jaVerificado |-> state \in states.verificados,
                      \* the call before this one was an exchange of the same
                      \* state whose token request failed, and no
                      \* authorization URL issued the state again since
                      retentativa |-> /\ ultTok.op = "exchange"
                                      /\ ultTok.state = state
                                      /\ ultTok.excecao \in {"timeout", "rede", "falha"}
                                      /\ state \in states.verificados,
                      agora |-> agora, excecao |-> r.excecao, rede |-> r.rede,
                      restou |-> state \in r.set,
                      inalterado |-> r.tokens = tokens,
                      discoInalterado |-> disco' = disco]
        /\ UNCHANGED agora

\* a caller (the refresh endpoint) awaits refreshAccessToken directly
RefreshAccessToken ==
    /\ \E resposta \in RespostasToken, falhaDisco \in BOOLEAN :
         \E r \in {refreshAccessToken(tokens, agora, resposta, redeTok)} :
           /\ redeTok + r.rede <= MaxRede
           /\ (r.rede = 0 => resposta = [ok |-> FALSE, expires_in |-> 0])
           /\ (~r.salvou => ~falhaDisco)
           /\ tokens' = r.tokens
           /\ disco' = IF r.salvou THEN saveTokens(disco, r.tokens, falhaDisco)
                                   ELSE disco
           /\ redeTok' = redeTok + r.rede
           /\ ultTok' = [op |-> "refresh", held |-> tokens.held,
                         temRefresh |-> tokens.refresh_token,
                         discoHeld |-> disco # SemArquivo,
                         excecao |-> r.excecao, rede |-> r.rede,
                         inalterado |-> r.tokens = tokens,
                         discoInalterado |-> disco' = disco]
    /\ UNCHANGED <<agora, states>>

\* how far the clock moves between two calls
PassosOAuth == {300}

\* the clock advances; the timers of saveState that are due delete their state
TiqueOAuth ==
    /\ \E d \in PassosOAuth :
         /\ agora + d \in Instantes
         /\ agora' = agora + d
         /\ states' = [states EXCEPT
                         !.set = @ \ {t[1] : t \in {u \in states.timers : u[2] <= agora + d}},
                         !.timers = {u \in @ : u[2] > agora + d},
                         !.emitidos = {e \in @ : agora + d - e[2] < Validade}]
    /\ UNCHANGED <<tokens, redeTok, ultTok, disco>>

InitOAuth ==
    /\ fila = <<>>
    /\ nfses = <<>>
    /\ gen = [r \in Reqs |-> GenOcioso]
    /\ falhas = 0
    /\ InitFilaParado
    /\ InitTokenParado
    /\ InitAuxParado

NextOAuth ==
    \/ GenerateAuthorizationUrl /\ UNCHANGED <<varsGerar, varsFila, poll, item, resolucao, inicio>>
    \/ ExchangeCodeForTokens /\ UNCHANGED <<varsGerar, varsFila, poll, item, resolucao, inicio>>
    \/ RefreshAccessToken /\ UNCHANGED <<varsGerar, varsFila, poll, item, resolucao, inicio>>
    \/ ClearTokens /\ UNCHANGED <<varsGerar, varsFila, varsAux>>
    \/ TiqueOAuth /\ UNCHANGED <<varsGerar, varsFila, poll, item, resolucao, inicio>>

\* authorization URLs, exchanges and refreshes of one service instance
SpecOAuth == InitOAuth /\ [][NextOAuth]_vars

(***************************************************************************)
(* Logout: clearTokens while an ensureValidToken call may be waiting for   *)
(* the answer of its refresh grant                                         *)
(***************************************************************************)
\* ensureValidToken up to its await: it raises or returns at once, or sends
\* the refresh grant and waits
IniciarEnsure ==
    /\ ultTok.op # "em_voo"
    /\ \E r \in {ensureValidToken(tokens, agora, [ok |-> FALSE, expires_in |-> 0],
                                   redeTok)} :
         /\ redeTok + r.rede <= MaxRede
         /\ redeTok' = redeTok + r.rede
         /\ ultTok' = IF r.rede = 0
                        THEN [op |-> "retornou", excecao |-> r.excecao]
                        ELSE [op |-> "em_voo", n |-> redeTok]
    /\ UNCHANGED <<tokens, agora, disco>>

\* the answer of the refresh grant arrives: refreshAccessToken stores and saves
\* the new tokens, and ensureValidToken returns this.tokens.access_token
ConcluirEnsure ==
    /\ ultTok.op = "em_voo"
    /\ \E resposta \in RespostasToken, falhaDisco \in BOOLEAN :
         \E r \in {respostaRefresh(tokens, agora, resposta, ultTok.n)} :
           /\ (~r.salvou => ~falhaDisco)
           /\ tokens' = r.tokens
           /\ disco' = IF r.salvou THEN saveTokens(disco, r.tokens, falhaDisco)
                                   ELSE disco
           /\ ultTok' = [op |-> "retornou", excecao |-> r.excecao]
    /\ UNCHANGED <<agora, redeTok>>

InitLogout ==
    /\ fila = <<>>
    /\ nfses = <<>>
    /\ gen = [r \in Reqs |-> GenOcioso]
    /\ falhas = 0
    /\ InitFilaParado
    /\ InitTokenParado
    /\ InitAuxParado

NextLogout ==
    \/ SetTokens /\ UNCHANGED <<varsGerar, varsFila, varsAux>>
    \/ ClearTokens /\ UNCHANGED <<varsGerar, varsFila, varsAux>>
    \/ IniciarEnsure /\ UNCHANGED <<varsGerar, varsFila, varsAux>>
    \/ ConcluirEnsure /\ UNCHANGED <<varsGerar, varsFila, varsAux>>
    \/ Tique /\ UNCHANGED <<varsGerar, varsFila, varsAux>>

\* logouts interleaved with token checks
SpecLogout == InitLogout /\ [][NextLogout]_vars

(***************************************************************************)
(* Several callers of ensureValidToken at once: each call runs up to the   *)
(* await of its own fetch, and the answers arrive in any order             *)
(***************************************************************************)
\* a caller enters ensureValidToken: it raises or returns at once, or it sends
\* a refresh grant carrying the refresh token the cache holds at that moment
\* (identified by the access token issued with it) and waits for the answer
ChamarEnsure ==
    /\ \E r \in {ensureValidToken(tokens, agora, [ok |-> FALSE, expires_in |-> 0],
                                   redeTok)} :
         /\ redeTok + r.rede <= MaxRede
         /\ redeTok' = redeTok + r.rede
         /\ ultTok' = IF r.rede = 0
                        THEN [ultTok EXCEPT
                                !.ultimo = IF r.excecao THEN "levantou" ELSE "retornou"]
                        ELSE [ultTok EXCEPT
                                !.ultimo = "enviou",
                                !.emVoo = Append(@, [n |-> redeTok,
                                                     apresentado |-> tokens.access_token])]
    /\ UNCHANGED <<tokens, agora, disco>>

\* the answer to one of the grants in flight arrives: refreshAccessToken
\* replaces the cache and saves it, or raises
RespostaEnsure ==
    /\ \E k \in 1..Len(ultTok.emVoo), resposta \in RespostasToken, falhaDisco \in BOOLEAN :
         \E r \in {respostaRefresh(tokens, agora, resposta, ultTok.emVoo[k].n)} :
           /\ (~r.salvou => ~falhaDisco)
           /\ tokens' = r.tokens
           /\ disco' = IF r.salvou THEN saveTokens(disco, r.tokens, falhaDisco)
                                   ELSE disco
           /\ ultTok' = [ultTok EXCEPT
                           !.ultimo = IF r.excecao THEN "levantou" ELSE "renovou",
                           !.emVoo = SubSeq(@, 1, k - 1) \o SubSeq(@, k + 1, Len(@))]
    /\ UNCHANGED <<agora, redeTok>>

InitConcorrente ==
    /\ tokens = SemTokens
    /\ agora = 0
    /\ redeTok = 0
    /\ ultTok = [op |-> "chamadas", ultimo |-> "nenhuma", emVoo |-> <<>>]
    /\ disco = SemArquivo
    /\ fila = <<>>
    /\ nfses = <<>>
    /\ gen = [r \in Reqs |-> GenOcioso]
    /\ falhas = 0
    /\ InitFilaParado
    /\ InitAuxParado

NextConcorrente ==
    \/ SetTokens /\ UNCHANGED <<varsGerar, varsFila, varsAux>>
    \/ ChamarEnsure /\ UNCHANGED <<varsGerar, varsFila, varsAux>>
    \/ RespostaEnsure /\ UNCHANGED <<varsGerar, varsFila, varsAux>>
    \/ Tique /\ UNCHANGED <<varsGerar, varsFila, varsAux>>

\* requests of the same service instance whose token checks overlap
SpecConcorrente == InitConcorrente /\ [][NextConcorrente]_vars

(***************************************************************************)
(* Process start: the constructor calls loadTokens on the tokens file      *)
(***************************************************************************)
\* expires_at of the saved tokens (0: the field is missing)
ValidadesArquivo == {0, 120, 300, 301, 600}

\* what the constructor can find at config.tokens_file: no file, a file that
\* cannot be read or parsed, or the tokens an earlier process saved
ArquivosTokens ==
    [tipo : {"ausente", "ilegivel"}, access_token : {101}, refresh_token : {FALSE},
     expires_at : {0}]
    \cup [tipo : {"tokens"}, access_token : {101}, refresh_token : BOOLEAN,
          expires_at : ValidadesArquivo]

\* the clock when the process starts
InstantesInicio == {0, 300}

\* variant: the saved tokens are loaded whatever their expires_at
loadTokensSemValidade(arquivo, arq, now, falha) ==
    IF arquivo.tipo # "tokens"
    THEN [tokens |-> SemTokens, disco |-> arq, remove |-> FALSE]
    ELSE [tokens |-> [held |-> TRUE, access_token |-> arquivo.access_token,
                      refresh_token |-> arquivo.refresh_token,
                      expires_at |-> arquivo.expires_at],
          disco |-> arq, remove |-> FALSE]

\* loadTokens: the cache and the file after the call, and whether
\* deleteTokensFile was called (falha: its unlink fails)
loadTokens(arquivo, arq, now, falha) ==
    IF arquivo.tipo # "tokens"
    THEN [tokens |-> SemTokens, disco |-> arq, remove |-> FALSE]
    ELSE IF arquivo.expires_at # 0 /\ now < arquivo.expires_at
    THEN [tokens |-> [held |-> TRUE, access_token |-> arquivo.access_token,
                      refresh_token |-> arquivo.refresh_token,
                      expires_at |-> arquivo.expires_at],
          disco |-> arq, remove |-> FALSE]
    ELSE [tokens |-> SemTokens, disco |-> deleteTokensFile(arq, falha),
          remove |-> TRUE]

\* new BlingService(...): this.loadTokens()
Construtor ==
    /\ inicio.pc = "parado"
    /\ \E falha \in BOOLEAN :
         \E r \in {loadTokens(inicio.arquivo, disco, agora, falha)} :
           /\ (falha => r.remove)
           /\ tokens' = r.tokens
           /\ disco' = r.disco
           /\ inicio' = [inicio EXCEPT !.pc = "em_servico", !.agora = agora,
                                       !.falha = falha, !.carregou = r.tokens]
    /\ UNCHANGED <<agora, redeTok, ultTok>>

InitInicio ==
    /\ \E arquivo \in ArquivosTokens :
         /\ inicio = [pc |-> "parado", arquivo |-> arquivo, agora |-> 0,
                      falha |-> FALSE, carregou |-> SemTokens]
         /\ disco = IF arquivo.tipo = "ausente" THEN SemArquivo
                                                ELSE arquivo.access_token
    /\ tokens = SemTokens
    /\ agora \in InstantesInicio
    /\ redeTok = 0
    /\ ultTok = [op |-> "nenhuma"]
    /\ fila = <<>>
    /\ nfses = <<>>
    /\ gen = [r \in Reqs |-> GenOcioso]
    /\ falhas = 0
    /\ InitFilaParado
    /\ poll = PollOcioso
    /\ item = ItemNenhum
    /\ states = StatesVazio
    /\ resolucao = [pc |-> "ocioso"]

NextInicio ==
    \/ Construtor /\ UNCHANGED <<varsGerar, varsFila, poll, item, states, resolucao>>
    \/ inicio.pc = "em_servico" /\ EnsureValidToken
          /\ UNCHANGED <<varsGerar, varsFila, varsAux>>
    \/ Tique /\ UNCHANGED <<varsGerar, varsFila, varsAux>>

\* one start of the process, then calls that need a valid token
SpecInicio == InitInicio /\ [][NextInicio]_vars

(***************************************************************************)
(* verificarOuCriarContato: search by CPF, create when not found, then     *)
(* read the full profile                                                   *)
(***************************************************************************)
MaxCandidatos == 2    \* contacts in result.data of the search

\* duplicata.responsavel.cpf as received (<<>> when absent or empty)
CpfsBrutos == {<<>>, <<".">>, <<"1", ".", "2">>, <<"3", "4">>}
\* numeroDocumento of a contact the search returns (<<>> when absent or empty)
DocumentosContato ==
    {<<>>, <<"1", "2">>, <<"1", ".", "2">>, <<"1", "2", "3">>, <<"3", "4">>}
\* result.data of the search: the numeroDocumento of each contact, the contact
\* id being its position
Candidatos == UNION {[1..n -> DocumentosContato] : n \in 0..MaxCandidatos}

\* what a GET of the contact directory can do:
\*   token  ensureValidToken raises     abort  the 30 s timeout fires
\*   rede   fetch rejects               http   a non-2xx response
\*   json   response.json() raises      sem_data  a 2xx response without data
\*   ok     a 2xx response with data
RespostasContato == {"token", "abort", "rede", "http", "json", "sem_data", "ok"}

\* variant: any candidate with a document is accepted
DocumentoConfereQualquer(doc, cpf) == doc # <<>>
\* contato.numeroDocumento && contato.numeroDocumento.replace(/\D/g, '') === cpf
DocumentoConfere(doc, cpf) == doc # <<>> /\ SoDigitos(doc) = cpf

\* buscarContatoPorCPF: the id of the first candidate that matches, 0 for null
buscarContatoPorCPF(cpf, resposta, candidatos) ==
    IF resposta # "ok" THEN 0
    ELSE IF \E k \in 1..Len(candidatos) : DocumentoConfere(candidatos[k], cpf)
    THEN CHOOSE k \in 1..Len(candidatos) :
           /\ DocumentoConfere(candidatos[k], cpf)
           /\ \A j \in 1..(k - 1) : ~DocumentoConfere(candidatos[j], cpf)
    ELSE 0

\* obterDetalhesContato: the profile was read (TRUE) or null is returned
obterDetalhesContato(resposta) == resposta = "ok"

\* verificarOuCriarContato(duplicata) up to the search: a missing CPF raises
IniciarContato ==
    /\ resolucao.pc = "ocioso"
    /\ \E bruto \in CpfsBrutos :
         LET cpf == SoDigitos(bruto)
         IN  resolucao' = [pc |-> IF cpf = <<>> THEN "fim" ELSE "busca",
                           cpf |-> cpf, busca |-> "nao_chamada", candidatos |-> <<>>,
                           achado |-> 0, criacao |-> "nao_chamada", contatoId |-> 0,
                           detalhes |-> "nao_chamada",
                           retorno |-> IF cpf = <<>> THEN "excecao" ELSE "nenhum"]

\* buscarContatoPorCPF answers, then the 1 s wait and the choice of the branch
BuscarContatoPorCPF ==
    /\ resolucao.pc = "busca"
    /\ \E resposta \in RespostasContato, candidatos \in Candidatos :
         /\ (resposta # "ok" => candidatos = <<>>)
         /\ LET achado == buscarContatoPorCPF(resolucao.cpf, resposta, candidatos)
            IN  resolucao' = [resolucao EXCEPT
                                !.busca = resposta, !.candidatos = candidatos,
                                !.achado = achado, !.contatoId = achado,
                                !.pc = IF achado # 0 THEN "detalhes" ELSE "criar"]

\* criarContato answers: the new contact (its id is not one of the
\* candidates'), or it raises
CriarContato ==
    /\ resolucao.pc = "criar"
    /\ \E resposta \in {"ok", "abort", "falha"} :
         resolucao' = [resolucao EXCEPT
                         !.criacao = resposta,
                         !.contatoId = IF resposta = "ok" THEN MaxCandidatos + 1 ELSE 0,
                         !.pc = IF resposta = "ok" THEN "detalhes" ELSE "fim",
                         !.retorno = IF resposta = "ok" THEN "nenhum" ELSE "excecao"]

\* obterDetalhesContato answers: the profile is returned, or null raises
DetalhesContato ==
    /\ resolucao.pc = "detalhes"
    /\ \E resposta \in RespostasContato :
         resolucao' = [resolucao EXCEPT
                         !.detalhes = resposta,
                         !.pc = "fim",
                         !.retorno = IF obterDetalhesContato(resposta)
                                     THEN "dados" ELSE "excecao"]

InitContato ==
    /\ fila = <<>>
    /\ nfses = <<>>
    /\ gen = [r \in Reqs |-> GenOcioso]
    /\ falhas = 0
    /\ InitFilaParado
    /\ InitTokenParado
    /\ InitAuxParado

NextContato ==
    \/ IniciarContato /\ UNCHANGED <<varsGerar, varsFila, varsToken, poll, item, states, inicio>>
    \/ BuscarContatoPorCPF /\ UNCHANGED <<varsGerar, varsFila, varsToken, poll, item, states, inicio>>
    \/ CriarContato /\ UNCHANGED <<varsGerar, varsFila, varsToken, poll, item, states, inicio>>
    \/ DetalhesContato /\ UNCHANGED <<varsGerar, varsFila, varsToken, poll, item, states, inicio>>

\* one contact resolution
SpecContato == InitContato /\ [][NextContato]_vars

(***************************************************************************)
(* FilaRPS (the queue view) and the store's counters over the same rows    *)
(***************************************************************************)

\* FilaRPS statusEfetivo: 'emitido' without numeroNFSe is shown as 'pendente'
statusEfetivo(i) ==
    IF i.status = "emitido" /\ i.numeroNFSe = NULL THEN "pendente" ELSE i.status

\* FilaRPS estatisticas: the four counters of the view
estatisticas(itens) ==
    [pendentes |-> Len(SelectSeq(itens, LAMBDA i : i.status = "pendente"
                                   \/ (i.status = "emitido" /\ i.numeroNFSe = NULL))),
     processando |-> Len(SelectSeq(itens, LAMBDA i : i.status = "processando")),
     emitidos |-> Len(SelectSeq(itens, LAMBDA i : i.status = "emitido" /\ i.numeroNFSe # NULL)),
     erros |-> Len(SelectSeq(itens, LAMBDA i : i.status = "erro"))]

\* FilaRPS itensFiltrados for a selected filtroStatus
itensFiltrados(itens, filtroStatus) ==
    SelectSeq(itens, LAMBDA i :
        IF filtroStatus = "pendente" THEN statusEfetivo(i) = "pendente"
        ELSE IF filtroStatus = "emitido"
             THEN i.status = "emitido" /\ i.numeroNFSe # NULL
             ELSE i.status = filtroStatus)

\* FilaRPS podeSelecionar: every row but an 'emitido' one with number
podeSelecionar(i) == ~(i.status = "emitido" /\ i.numeroNFSe # NULL)

\* RpsService.obterEstatisticas: four counts by the stored status; a store
\* error is caught and answers zeros
obterEstatisticas(tab, lido) ==
    IF lido
    THEN [pendentes |-> Len(SelectSeq(tab, LAMBDA row : row.status = "pendente")),
          processando |-> Len(SelectSeq(tab, LAMBDA row : row.status = "processando")),
          emitidos |-> Len(SelectSeq(tab, LAMBDA row : row.status = "emitido")),
          erros |-> Len(SelectSeq(tab, LAMBDA row : row.status = "erro"))]
    ELSE [pendentes |-> 0, processando |-> 0, emitidos |-> 0, erros |-> 0]

(***************************************************************************)
(* Properties of generate (SpecGerar)                                      *)
(***************************************************************************)
\* positions of all result entries pushed so far, over both requests
Pos == {x \in Reqs \X (1..MaxLote + 1) : x[2] <= Len(gen[x[1]].resultados)}
Entrada(x) == gen[x[1]].resultados[x[2]]
Linhas(pedidoId) == {k \in 1..Len(fila) : fila[k].pedidoVendaId = pedidoId}

\* C1: generate twice for one order id (same batch or successive batches),
\* the first call succeeding: 'sucesso' is reported once only, the call that
\* finds the order already recorded reports 'ignorado' (RPS already exists),
\* and the store never holds two rows with the same pedidoVendaId.
C1_GerarIdempotente ==
    /\ \A j, k \in 1..Len(fila) :
         j # k => fila[j].pedidoVendaId # fila[k].pedidoVendaId
    /\ \A p \in PedidoIds :
         Cardinality({x \in Pos : Entrada(x).pedidoId = p
                                  /\ Entrada(x).status = "sucesso"}) <= 1
    /\ \A x \in Pos :
         (Entrada(x).existia /\ Entrada(x).falhou \cap {"pedido", "existente"} = {})
         => /\ Entrada(x).status = "ignorado"
            /\ Entrada(x).motivo = "ja_existe"

\* one request reports 'sucesso' then 'ignorado' for the same order in one batch,
\* and another request run afterwards reports 'ignorado' again
C1_Witness ==
    \E x, y, z \in Pos :
       /\ x[1] = y[1] /\ x[2] < y[2] /\ z[1] # x[1]
       /\ Entrada(x).pedidoId = Entrada(y).pedidoId
       /\ Entrada(z).pedidoId = Entrada(x).pedidoId
       /\ Entrada(x).status = "sucesso"
       /\ Entrada(y).status = "ignorado" /\ Entrada(y).motivo = "ja_existe"
       /\ Entrada(z).status = "ignorado" /\ Entrada(z).motivo = "ja_existe"
       /\ Entrada(z).existia

\* C2: two interleaved generate requests for one order may both pass the
\* buscarPorPedidoId pre-check, but the unique index lets at most one criar
\* succeed: never two rows for the order, and a request that reached criar
\* without inserting reports 'erro'.
C2_IndiceUnicoGuarda ==
    /\ \A p \in PedidoIds : Cardinality(Linhas(p)) <= 1
    /\ \A x \in Pos :
         "criar" \in Entrada(x).chamadas
         => /\ Entrada(x).status \in {"sucesso", "erro"}
            /\ Entrada(x).status = "erro" <=> "criar" \in Entrada(x).falhou
    /\ \A x, y \in Pos :
         (x # y /\ Entrada(x).pedidoId = Entrada(y).pedidoId
              /\ "criar" \in Entrada(x).chamadas /\ "criar" \in Entrada(y).chamadas)
         => ~(Entrada(x).status = "sucesso" /\ Entrada(y).status = "sucesso")

\* both requests passed the pre-check with no store error, no row existed when
\* either began, one inserted and the other reports 'erro'
C2_Witness ==
    \E x, y \in Pos :
       /\ x[1] # y[1]
       /\ Entrada(x).pedidoId = Entrada(y).pedidoId
       /\ ~Entrada(x).existia /\ ~Entrada(y).existia
       /\ Entrada(x).falhou = {} /\ Entrada(y).falhou = {"criar"}
       /\ falhas = 0
       /\ Entrada(x).status = "sucesso" /\ Entrada(y).status = "erro"
       /\ Cardinality(Linhas(Entrada(x).pedidoId)) = 1

\* C3: an order whose situation is the cancelled code is reported 'ignorado'
\* by generate: no NFSe is emitted and no row is inserted for it (stated for
\* the runs in which no remote call and no store call fails).
C3_CanceladoIgnorado ==
    falhas = 0 =>
    /\ \A n \in 1..Len(nfses) : Pedido(nfses[n]).situacao # SituacaoCancelado
    /\ \A k \in 1..Len(fila) : Pedido(fila[k].pedidoVendaId).situacao # SituacaoCancelado
    /\ \A x \in Pos :
         (Pedido(Entrada(x).pedidoId).situacao = SituacaoCancelado
              /\ Entrada(x).falhou = {})
         => Entrada(x).status = "ignorado"

\* the customer has no contact, no document, or fewer than 11 digits in it
C4_SemDocumento(pedido) ==
    \/ ~pedido.temContato
    \/ pedido.numeroDocumento = <<>>
    \/ Cardinality({j \in DOMAIN pedido.numeroDocumento :
                       pedido.numeroDocumento[j] \in Digitos}) < 11

\* C4: an order without a usable customer document is reported 'ignorado'
\* (consumer-default), never 'sucesso' or 'erro', and after the order was read
\* no contact lookup, product lookup, emission or insert is made for it.
C4_ConsumidorFinalIgnorado ==
    /\ \A x \in Pos :
         (C4_SemDocumento(Pedido(Entrada(x).pedidoId)) /\ "pedido" \notin Entrada(x).falhou)
         => /\ Entrada(x).status = "ignorado"
            /\ Entrada(x).motivo = "consumidor_final"
            /\ Entrada(x).chamadas = {"pedido"}
    /\ \A r \in Reqs :
         (gen[r].pc \notin {"ocioso", "pedido", "fim"})
         => ~C4_SemDocumento(Pedido(gen[r].lote[gen[r].i]))
    /\ \A n \in 1..Len(nfses) : ~C4_SemDocumento(Pedido(nfses[n]))
    /\ \A k \in 1..Len(fila) : ~C4_SemDocumento(Pedido(fila[k].pedidoVendaId))

\* an order whose document has punctuation and 10 digits and an order with
\* no contact have both been ignored
C4_Witness ==
    \E x, y \in Pos :
       /\ Pedido(Entrada(x).pedidoId).numeroDocumento = DocCurto
       /\ Entrada(x).status = "ignorado" /\ Entrada(x).motivo = "consumidor_final"
       /\ ~Pedido(Entrada(y).pedidoId).temContato
       /\ Entrada(y).status = "ignorado" /\ Entrada(y).motivo = "consumidor_final"

\* the items of the entry's order whose product was read and has tipo 'S'
C5_ServicosLidos(e) ==
    {k \in e.produtosOk : TipoProduto(Pedido(e.pedidoId).itens[k]) = "S"}

\* C5: an eligible order that reaches the item classification with no item
\* classified as a service (also when every product lookup fails) is reported
\* 'ignorado' with the no-services reason, never 'erro'; no NFSe is emitted
\* and no row is inserted for it.
C5_SemServicosIgnorado ==
    \A x \in Pos :
       ("contato" \in Entrada(x).chamadas /\ C5_ServicosLidos(Entrada(x)) = {})
       => /\ Entrada(x).status = "ignorado"
          /\ Entrada(x).motivo = "sem_servicos"
          /\ Entrada(x).chamadas \cap {"emitir", "criar"} = {}

\* an order with a service item whose only successful lookups were not services
\* (the lookup of the service failed) is ignored, and so is one with products only
C5_Witness ==
    \E x \in Pos :
       /\ "produto" \in Entrada(x).falhou
       /\ \E k \in DOMAIN Pedido(Entrada(x).pedidoId).itens :
            TipoProduto(Pedido(Entrada(x).pedidoId).itens[k]) = "S"
       /\ Entrada(x).status = "ignorado" /\ Entrada(x).motivo = "sem_servicos"

\* C9: a 'sucesso' of generate means exactly one row of that order was
\* inserted, with status 'pendente' and the NFSe id the emission call returned
\* for that order; 'ignorado' and 'erro' insert no row.
C9_SucessoInsereUmaLinha ==
    /\ \A x \in Pos :
         Entrada(x).status = "sucesso"
         => /\ ~Entrada(x).existia
            /\ Cardinality(Linhas(Entrada(x).pedidoId)) = 1
            /\ \A k \in Linhas(Entrada(x).pedidoId) :
                 /\ fila[k].status = "pendente"
                 /\ fila[k].nfseId = Entrada(x).nfseId
                 /\ fila[k].nfseId \in 1..Len(nfses)
                 /\ nfses[fila[k].nfseId] = Entrada(x).pedidoId
    /\ Len(fila) = Cardinality({x \in Pos : Entrada(x).status = "sucesso"})

\* a batch with one 'sucesso' and one entry that is not
C9_Witness ==
    \E x, y \in Pos :
       /\ Entrada(x).status = "sucesso"
       /\ Entrada(y).status = "erro"
       /\ "emitir" \in Entrada(y).chamadas
       /\ Len(fila) = 1

(***************************************************************************)
(* Properties of the token cache (SpecToken)                               *)
(***************************************************************************)
\* C6: with a token held, ensureValidToken calls refreshAccessToken exactly
\* when now >= expires_at - 5 minutes; otherwise it returns the cached access
\* token, sends nothing to the token endpoint and leaves the cache as it was.
\* A token expiring in 120 s is refreshed, one expiring in 10 minutes is not.
C6_RenovaSoNaMargem ==
    (ultTok.op = "ensure" /\ ultTok.held)
    => /\ ultTok.renovou <=> ultTok.restante <= 300
       /\ ~ultTok.renovou
          => /\ ~ultTok.excecao
             /\ ultTok.retornouCache
             /\ ultTok.rede = 0
             /\ ultTok.inalterado
       /\ ultTok.restante = 120 => ultTok.renovou
       /\ ultTok.restante = 600 => ~ultTok.renovou

\* a call made exactly 5 minutes before expiry refreshed the token
C6_Witness ==
    /\ ultTok.op = "ensure" /\ ultTok.held
    /\ ultTok.restante = 300
    /\ ultTok.renovou /\ ultTok.rede = 1 /\ ~ultTok.excecao
    /\ ~ultTok.inalterado /\ ~ultTok.retornouCache

(***************************************************************************)
(* Properties of submit (SpecEnvio) and sync (SpecSinc)                    *)
(***************************************************************************)
\* a status earlier in pendente -> processando -> emitido than the one held
Regride(de, para) ==
    \/ de = "processando" /\ para = "pendente"
    \/ de = "emitido" /\ para \in {"pendente", "processando"}

ComNumero(row) == row.status = "emitido" /\ row.numeroNFSe # NULL
SemNumero(row) == row.status = "emitido" /\ row.numeroNFSe = NULL

\* C7: sync never moves a 'processando' row or an 'emitido' row with number
\* backward; the only backward change it writes is 'emitido' without number
\* to 'pendente', when the remote invoice could not be read (stated for the
\* runs in which no store call fails).
C7_SincNaoRegride ==
    (ult.op = "sinc" /\ falhas = 0)
    => LET antes == ult.antes
           depois == fila[ult.id]
       IN  /\ (antes.status = "processando" \/ ComNumero(antes))
              => ~Regride(antes.status, depois.status)
           /\ Regride(antes.status, depois.status)
              => (SemNumero(antes) /\ depois.status = "pendente"
                    /\ ult.leitura = "falha")

\* C8: no operation changes the status of a row that is already 'emitido'
\* with an invoice number or 'erro', whichever row ids the caller passes
\* (stated for submit, in the runs in which no store call fails).
C8_TerminalNaoMuda ==
    (/\ ult.op = "enviar" /\ falhas = 0 /\ ult.achou
     /\ (ComNumero(ult.antes) \/ ult.antes.status = "erro"))
    => fila[ult.id].status = ult.antes.status

\* C10: the submission call raised and the compensating read shows the
\* invoice issued (situacao 2, or a number present): the row ends 'emitido'
\* with the number read, the entry is 'sucesso' and the row is not 'erro'.
C10_RecuperaEmitida ==
    (/\ ult.op = "enviar"
     /\ ult.envio = "falha"
     /\ ult.leitura = "ok"
     /\ (ult.situacao = 2 \/ ult.numero # NULL)
     /\ "recuperado" \notin ult.bd)
    => /\ fila[ult.id].status = "emitido"
       /\ fila[ult.id].numeroNFSe = ult.numero
       /\ ult.resultado = "sucesso"
       /\ ult.numeroResultado = ult.numero
       /\ env.resultados[Len(env.resultados)] = "sucesso"

\* the submission failed, the read answered a number with a situation other
\* than 2, and the row, 'pendente' before, is 'emitido' with that number
C10_Witness ==
    /\ ult.op = "enviar"
    /\ ult.envio = "falha"
    /\ ult.leitura = "ok"
    /\ ult.situacao # 2 /\ ult.numero = "000123"
    /\ ult.antes.status = "pendente" /\ ult.antes.numeroNFSe = NULL
    /\ fila[ult.id].status = "emitido"
    /\ fila[ult.id].numeroNFSe = "000123"
    /\ ult.resultado = "sucesso"

\* the last submit step raised inside its try block and wrote 'erro' to the row
C11_GravouErro ==
    /\ ult.op = "enviar" /\ ult.achou /\ ult.antes.nfseId # 0
    /\ ult.resultado = "erro"
    /\ fila[ult.id].status = "erro" /\ fila[ult.id].mensagemErro = "envio"

C12_EnvioSemErro ==
    (ult.op = "enviar" /\ ult.envio = "ok" /\ "emitido" \notin ult.bd)
    => IF ult.numeroEnvio # NULL
       THEN /\ fila[ult.id].status = "emitido"
            /\ fila[ult.id].numeroNFSe = ult.numeroEnvio
            /\ ult.resultado = "sucesso"
            /\ ult.numeroResultado = ult.numeroEnvio
            /\ ult.leitura = "nao_chamada"
       ELSE /\ fila[ult.id].status = "processando"
            /\ fila[ult.id].numeroNFSe = ult.antes.numeroNFSe
            /\ fila[ult.id].mensagemErro = ult.antes.mensagemErro
            /\ ult.resultado = "processando"
            /\ ult.leitura = "nao_chamada"

\* a 'pendente' row was submitted, the response carried no number, and the
\* row is 'processando'
C12_Witness ==
    /\ ult.op = "enviar" /\ ult.envio = "ok" /\ ult.numeroEnvio = NULL
    /\ ult.antes.status = "pendente"
    /\ fila[ult.id].status = "processando"
    /\ ult.resultado = "processando"
    /\ env.resultados = <<"processando">>

\* the fixed table of the claim: remote situation -> local status
C13_Tabela(situacao, atual) ==
    CASE situacao = 0 -> "pendente"
      [] situacao \in {1, 2} -> "emitido"
      [] situacao = 3 -> "erro"
      [] OTHER -> atual

\* C13: when sync read the remote invoice of a listed row (and the store
\* accepted the update), the row's status is the table's image of the remote
\* situation; a 'pendente' row whose invoice is issued with number n is
\* 'emitido' with numeroNFSe = n and atualizados grew by exactly one.
C13_SincMapeiaSituacao ==
    (ult.op = "sinc" /\ ult.leitura = "ok" /\ ult.bd = {})
    => /\ fila[ult.id].status = C13_Tabela(ult.situacao, ult.antes.status)
       /\ (ult.antes.status = "pendente" /\ ult.situacao \in {1, 2}
              /\ ult.numero # NULL)
          => /\ fila[ult.id].status = "emitido"
             /\ fila[ult.id].numeroNFSe = ult.numero
             /\ ult.atualizados = 1 /\ ult.corrigidos = 0

\* a 'pendente' row whose invoice is issued with number "000456" is 'emitido'
\* with that number, counted once in atualizados
C13_Witness ==
    /\ ult.op = "sinc" /\ ult.leitura = "ok"
    /\ ult.antes.status = "pendente" /\ ult.antes.numeroNFSe = NULL
    /\ ult.situacao = 1 /\ ult.numero = "000456"
    /\ fila[ult.id].status = "emitido" /\ fila[ult.id].numeroNFSe = "000456"
    /\ ult.atualizados = 1
    /\ sinc.atualizados = 1 /\ sinc.corrigidos = 0

\* the rows sync has to verify: 'pendente', 'processando', 'emitido' without number
C14_Elegivel(row) ==
    \/ row.status \in {"pendente", "processando"}
    \/ (row.status = "emitido" /\ row.numeroNFSe = NULL)

\* the ids of the rows sync listed
C14_Listados == {sinc.lista[j].id : j \in 1..Len(sinc.lista)}

\* the rows of status st among the 1000 newest of that status
C14_NaPagina(st) ==
    {k \in 1..Len(fila) :
       /\ fila[k].status = st
       /\ Cardinality({j \in 1..Len(fila) : j > k /\ fila[j].status = st}) < 1000}

C15_FalhaDeLeitura ==
    (ult.op = "sinc" /\ ult.leitura = "falha" /\ ult.bd = {})
    => /\ IF ult.antes.status = "emitido" /\ ult.antes.numeroNFSe = NULL
          THEN /\ fila[ult.id].status = "pendente"
               /\ fila[ult.id].mensagemErro = "nao_encontrada"
               /\ fila[ult.id].numeroNFSe = NULL
          ELSE fila[ult.id] = ult.antes
       /\ ult.resultado = "ok"
       /\ sinc.pc = IF sinc.i <= Len(sinc.lista) THEN "laco" ELSE "fim"
       /\ sinc.i > 1 /\ sinc.lista[sinc.i - 1].id = ult.id

\* the lookup of an 'emitido' row without number failed, the row is 'pendente'
\* and sync is at the second row of its list
C15_Witness ==
    /\ ult.op = "sinc" /\ ult.leitura = "falha"
    /\ ult.antes.status = "emitido" /\ ult.antes.numeroNFSe = NULL
    /\ fila[ult.id].status = "pendente"
    /\ fila[ult.id].mensagemErro = "nao_encontrada"
    /\ sinc.pc = "laco" /\ sinc.i = 2 /\ Len(sinc.lista) = 2
    /\ sinc.corrigidos = 1

(***************************************************************************)
(* Properties of buscarSituacaoNFSe (SpecPoll)                             *)
(***************************************************************************)
\* the attempts that sent a request for the invoice
C16_Lidas == {k \in 1..Len(poll.hist) : poll.hist[k] # "token"}

\* C16: buscarSituacaoNFSe makes at most 5 attempts and at most 5 reads of
\* the invoice, waits 40 s after every attempt but the last, returns the data
\* at the first response with a number and reads no more, returns null after
\* 5 attempts without a number, and never raises, whatever the responses.
C16_PollLimitado ==
    /\ Len(poll.hist) <= 5
    /\ poll.leituras = Cardinality(C16_Lidas) /\ poll.leituras <= 5
    /\ \A k \in 1..Len(poll.hist) : poll.hist[k] = "numero" => k = Len(poll.hist)
    /\ poll.pc = "laco"
       => /\ poll.espera = 40 * Len(poll.hist)
          /\ poll.tentativa = Len(poll.hist) + 1
          /\ poll.retorno = "nenhum"
    /\ poll.pc = "fim"
       => /\ Len(poll.hist) >= 1
          /\ poll.espera = 40 * (Len(poll.hist) - 1)
          /\ poll.retorno # "excecao"
          /\ IF poll.hist[Len(poll.hist)] = "numero"
             THEN poll.retorno = "000123"
             ELSE Len(poll.hist) = 5 /\ poll.retorno = NULL

\* five attempts met a token failure, a timeout, a non-2xx response, a body
\* that is not JSON and a response without number: null after 4 reads, 160 s
C16_Witness ==
    /\ poll.pc = "fim"
    /\ poll.hist = <<"token", "abort", "http", "json", "sem_numero">>
    /\ poll.retorno = NULL
    /\ poll.leituras = 4
    /\ poll.espera = 160

(***************************************************************************)
(* Properties of the RPS number (SpecRPS)                                  *)
(***************************************************************************)
\* the number a text of decimal digits denotes
RECURSIVE C17_Valor(_)
C17_Valor(texto) ==
    IF texto = <<>> THEN 0
    ELSE 10 * C17_Valor(SubSeq(texto, 1, Len(texto) - 1))
         + (CHOOSE v \in 0..9 :
              <<"0","1","2","3","4","5","6","7","8","9">>[v + 1] = texto[Len(texto)])

\* C17: the RPS number generated for an order: for an order number of at
\* most 8 digits, exactly 8 decimal digits, the order number first, then the
\* random value zero-padded to 8 - len digits; for a longer order number, its
\* first 8 digits.
C17_NumeroRPSOitoDigitos ==
    item.fluxo = "pedido"
    => \A k \in 1..Len(item.envios) :
         LET out == item.envios[k].numeroRPS
             np == ParaTexto(item.numero)
             n == Len(np)
         IN  /\ Len(out) = 8
             /\ \A j \in 1..8 : out[j] \in Digitos
             /\ C17_Valor(np) = item.numero
             /\ IF n <= 8
                THEN /\ SubSeq(out, 1, n) = np
                     /\ n < 8 => C17_Valor(SubSeq(out, n + 1, 8))
                                   = item.envios[k].sorteio
                ELSE out = SubSeq(np, 1, 8)

\* order number 42 with the random value 7 gives "42000007"
C17_Witness ==
    /\ item.fluxo = "pedido" /\ item.numero = 42
    /\ Len(item.envios) >= 1
    /\ item.envios[1].sorteio = 7
    /\ item.envios[1].numeroRPS = <<"4","2","0","0","0","0","0","7">>

\* a text without its blanks
C18_SemBrancos(texto) == SelectSeq(texto, LAMBDA c : c # " ")

\* C18 as stated: a supplied RPS number is reused unchanged, a number is
\* generated only when none was supplied, and a retry of the same order or
\* duplicata sends the number its earlier attempt sent.
C18_RetryMesmoNumero ==
    item.fluxo # "nenhum"
    => /\ \A k \in 1..Len(item.envios) :
            item.envios[k].rps # <<>> => item.envios[k].numeroRPS = item.envios[k].rps
       /\ \A k \in 2..Len(item.envios) :
            (item.fluxo = "pedido" \/ item.envios[k].rps = item.envios[k - 1].numeroRPS)
            => item.envios[k].numeroRPS = item.envios[k - 1].numeroRPS

\* C18 amended: for a duplicata, a supplied RPS number is reused without its
\* surrounding blanks and a number (timestamp, then the duplicata number) is
\* generated only when none or only blanks were supplied, so a retry that
\* supplies the number sent before sends it again; for an order no number is
\* supplied and every attempt generates one that begins with the order number.
C18_ReusoSoNaDuplicata ==
    /\ item.fluxo = "duplicata"
       => /\ \A k \in 1..Len(item.envios) :
               LET e == item.envios[k]
               IN  IF C18_SemBrancos(e.rps) # <<>>
                   THEN e.numeroRPS = C18_SemBrancos(e.rps)
                   ELSE /\ SubSeq(e.numeroRPS, 1, Len(e.sorteio)) = e.sorteio
                        /\ C17_Valor(SubSeq(e.numeroRPS, Len(e.sorteio) + 1,
                                             Len(e.numeroRPS))) = item.numero
          /\ \A k \in 2..Len(item.envios) :
               item.envios[k].rps = item.envios[k - 1].numeroRPS
               => item.envios[k].numeroRPS = item.envios[k - 1].numeroRPS
    /\ item.fluxo = "pedido"
       => \A k \in 1..Len(item.envios) :
            LET e == item.envios[k]
                n == Len(ParaTexto(item.numero))
            IN  /\ e.rps = <<>>
                /\ SubSeq(e.numeroRPS, 1, IF n < 8 THEN n ELSE 8)
                     = SubSeq(ParaTexto(item.numero), 1, IF n < 8 THEN n ELSE 8)

\* a duplicata supplied with " 77 " was sent as "77", the caller kept it and
\* the retry sent "77" again
C18_Witness ==
    /\ item.fluxo = "duplicata"
    /\ Len(item.envios) = 2
    /\ item.envios[1].rps = <<" ","7","7"," ">>
    /\ item.envios[1].numeroRPS = <<"7","7">>
    /\ item.envios[2].rps = <<"7","7">>
    /\ item.envios[2].numeroRPS = <<"7","7">>

\* C19: an exchange accepts a state only if an authorization URL issued it
\* less than ten minutes before and no exchange has accepted it since; the
\* accepted state leaves the set; a refused exchange raises the CSRF error,
\* sends no token request and leaves the cached and saved tokens as they were.
C19_StateUsoUnico ==
    ultTok.op = "exchange"
    => /\ ultTok.aceito
          => /\ \E e \in ultTok.emitidos :
                   e[1] = ultTok.state /\ ultTok.agora - e[2] < Validade
             /\ ~ultTok.restou
       /\ ~ultTok.aceito
          => /\ ultTok.excecao = "csrf"
             /\ ultTok.rede = 0
             /\ ultTok.inalterado
             /\ ultTok.discoInalterado

\* a state accepted by an earlier exchange, which obtained tokens, was handed
\* to exchange again and refused
C19_Witness ==
    /\ ultTok.op = "exchange"
    /\ ultTok.jaVerificado
    /\ ~ultTok.aceito
    /\ ultTok.excecao = "csrf"
    /\ tokens.held
    /\ disco # SemArquivo

\* C20: a refresh with no tokens or no refresh token in the cache raises, sends
\* no request to the token endpoint and leaves the cache and the tokens file
\* as they were.
C20_RefreshSemToken ==
    (ultTok.op = "refresh" /\ (~ultTok.held \/ ~ultTok.temRefresh))
    => /\ ultTok.excecao
       /\ ultTok.rede = 0
       /\ ultTok.inalterado
       /\ ultTok.discoInalterado

\* a refresh was asked with cached tokens that carry no refresh token, while a
\* tokens file exists
C20_Witness ==
    /\ ultTok.op = "refresh"
    /\ ultTok.held
    /\ ~ultTok.temRefresh
    /\ ultTok.discoHeld
    /\ ultTok.excecao
    /\ tokens.held
    /\ disco # SemArquivo

\* C21 as stated: after every step that puts new tokens in the cache
\* (exchange, refresh, setTokens) the tokens file holds the cached tokens.
C21_MutacaoPersistida ==
    [][(tokens' # tokens /\ tokens'.held) => disco' = tokens'.access_token]_vars

\* C22 as stated: a clear leaves no tokens in the cache nor in the tokens file,
\* and an emptied cache gets tokens again only from setTokens (or an exchange).
C22_ClearDefinitivo ==
    [][/\ (tokens.held /\ ~tokens'.held) => disco' = SemArquivo
       /\ (~tokens.held /\ tokens'.held) => tokens'.access_token \in TokensManuais]_vars

\* the entries of a generate request line up with the order ids it was given,
\* and a finished request has one entry per id
C23_UmPorPedido(g) ==
    /\ g.pc # "ocioso" => Len(g.resultados) = (IF g.pc = "fim" THEN g.n ELSE g.i - 1)
    /\ \A k \in 1..Len(g.resultados) : g.resultados[k].pedidoId = g.lote[k]

\* C23 as stated: one entry per order id, in input order, and every order in
\* whose processing a call failed has the entry 'erro'.
C23_TodaFalhaErro ==
    \A r \in Reqs :
      /\ C23_UmPorPedido(gen[r])
      /\ \A k \in 1..Len(gen[r].resultados) :
           gen[r].resultados[k].falhou # {} => gen[r].resultados[k].status = "erro"

\* C23 amended: one entry per order id, in input order, whatever fails; a failed
\* order read, emission or insert gives 'erro' for that order and only an order
\* with a failed call has 'erro'; a failed contact read gives 'erro' or, for an
\* order without services, 'ignorado'; a failed product read or a failed lookup
\* of the existing row is swallowed and may end in any status.
C23_UmResultadoPorPedido ==
    \A r \in Reqs :
      /\ C23_UmPorPedido(gen[r])
      /\ \A k \in 1..Len(gen[r].resultados) :
           LET e == gen[r].resultados[k]
           IN  /\ e.falhou \cap {"pedido", "emitir", "criar"} # {} => e.status = "erro"
               /\ e.status = "erro" => e.falhou # {}
               /\ "contato" \in e.falhou => e.status \in {"erro", "ignorado"}

\* a batch of two whose first order failed and whose second order succeeded
C23_Witness ==
    /\ gen["A"].pc = "fim"
    /\ gen["A"].n = 2
    /\ gen["A"].resultados[1].status = "erro"
    /\ gen["A"].resultados[1].falhou # {}
    /\ gen["A"].resultados[2].status = "sucesso"

\* C24 as stated: neither submit nor sync raises out of its loop because of
\* what fails while one record is handled.
C24_NuncaLevanta ==
    /\ env.pc # "excecao"
    /\ sinc.pc # "excecao"

\* C25 as stated: a generate request that finds no usable credential raises,
\* so no entry of its result list comes from a failed credential check.
C25_CredencialPropaga ==
    \A r \in Reqs :
      \A k \in 1..Len(gen[r].resultados) :
        gen[r].resultados[k].motivo # "autenticacao"

\* C26 as stated (its first case): a contact search that timed out is not taken
\* for 'no contact found', so no contact is created after it.
C26_TimeoutNaoCria ==
    resolucao.pc # "ocioso"
    => ~(resolucao.busca = "abort" /\ resolucao.criacao # "nao_chamada")

\* C28: the search returns a contact only if that candidate's document, digits
\* only, equals the searched document; when no candidate matches it returns
\* null, whatever the search returned, and the resolver goes on to create a
\* contact; a contact that was found is never followed by a creation.
C28_BuscaExata ==
    (resolucao.pc # "ocioso" /\ resolucao.busca # "nao_chamada")
    => LET cand == resolucao.candidatos
           igual(k) == cand[k] # <<>> /\ SoDigitos(cand[k]) = resolucao.cpf
       IN  /\ resolucao.achado # 0
              => /\ resolucao.busca = "ok"
                 /\ resolucao.achado \in 1..Len(cand)
                 /\ igual(resolucao.achado)
                 /\ resolucao.criacao = "nao_chamada"
           /\ (\A k \in 1..Len(cand) : ~igual(k))
              => /\ resolucao.achado = 0
                 /\ resolucao.pc = "criar" \/ resolucao.criacao # "nao_chamada"

\* the search for 12 returned only the contact 123, and a contact was created
C28_Witness ==
    /\ resolucao.pc # "ocioso"
    /\ resolucao.cpf = <<"1", "2">>
    /\ resolucao.busca = "ok"
    /\ resolucao.candidatos = <<<<"1", "2", "3">>>>
    /\ resolucao.achado = 0
    /\ resolucao.criacao = "ok"

\* the positions of gerarRPSParaPedidos whose next statement is a call to the ERP
C27_ChamadaExterna == {"pedido", "contato", "itens", "emitir"}

\* C27 as stated (its delay clause): a generate request that has made a call to
\* the ERP waits before its next one, so it never steps from one call to the ERP
\* straight to the position of the next.
C27_AtrasoEntreChamadas ==
    [][\A r \in Reqs :
         ~(/\ gen[r].pc \in C27_ChamadaExterna
           /\ gen'[r].pc \in C27_ChamadaExterna
           /\ gen'[r] # gen[r])]_vars

\* C29 as stated: an order whose contact profile could not be read ends 'erro',
\* and no NFSe is emitted for it.
C29_SemPerfilErro ==
    \A r \in Reqs :
      \A k \in 1..Len(gen[r].resultados) :
        "contato" \in gen[r].resultados[k].falhou
        => /\ gen[r].resultados[k].status = "erro"
           /\ "emitir" \notin gen[r].resultados[k].chamadas

\* C29 amended: an order whose contact profile could not be read is never
\* 'sucesso' and no NFSe is emitted for it; it ends 'erro' when a service item
\* was found, and 'ignorado' (no services) when none was.
C29_SemPerfilNuncaSucesso ==
    \A r \in Reqs :
      \A k \in 1..Len(gen[r].resultados) :
        LET e == gen[r].resultados[k]
        IN  "contato" \in e.falhou
            => /\ e.status \in {"erro", "ignorado"}
               /\ e.status = "ignorado"
                  <=> Servicos(Pedido(e.pedidoId), e.produtosOk) = {}
               /\ e.status = "ignorado" => e.motivo = "sem_servicos"
               /\ "emitir" \notin e.chamadas
               /\ e.nfseId = 0

\* an order with a service item whose contact profile could not be read
\* ended 'erro'
C29_Witness ==
    \E r \in Reqs :
      \E k \in 1..Len(gen[r].resultados) :
        /\ "contato" \in gen[r].resultados[k].falhou
        /\ gen[r].resultados[k].status = "erro"
        /\ Servicos(Pedido(gen[r].resultados[k].pedidoId),
                    gen[r].resultados[k].produtosOk) # {}

(***************************************************************************)
\* C30: every consumer that selects, filters or counts rows by status treats
\* an 'emitido' row without invoice number as 'pendente': for every table the
\* store holds, the view's counters equal the store's stats, the view's
\* filter by a status shows the rows the store lists for that status, and a
\* row is selectable exactly when its effective status is not 'emitido'
C30_Status == {"pendente", "processando", "emitido", "erro"}
C30_Ids(itens) == {itens[k].id : k \in 1..Len(itens)}

C30_StatusEfetivoUniforme ==
    /\ estatisticas(fila) = obterEstatisticas(fila, TRUE)
    /\ \A s \in C30_Status :
         C30_Ids(itensFiltrados(fila, s))
           = C30_Ids(listarFila(fila, s, TRUE, 1, LimiteSinc))
    /\ \A k \in 1..Len(fila) :
         podeSelecionar(fila[k]) <=> statusEfetivo(fila[k]) # "emitido"

(***************************************************************************)
C31_Mapeado(situacao, atual) ==
    IF situacao \in {1, 2} THEN "emitido"
    ELSE IF situacao = 3 THEN "erro"
    ELSE IF situacao = 0 THEN "pendente" ELSE atual

C31_Mudou ==
    \/ C31_Mapeado(ult.situacao, ult.antes.status) # ult.antes.status
    \/ (ult.numero # NULL /\ ult.numero # ult.antes.numeroNFSe)

C31_Correcao == SemNumero(ult.antes) /\ ult.numero # NULL

C32_Emissoes(pedidoId) == {k \in 1..Len(nfses) : nfses[k] = pedidoId}

\* C32: for each order id at most one NFSe creation call succeeds, over any
\* interleaving of generate requests
C32_UmaEmissaoPorPedido ==
    \A pedidoId \in PedidoIds : Cardinality(C32_Emissoes(pedidoId)) <= 1

(***************************************************************************)
\* C33: once no generate request is running, every NFSe created remotely is
\* referenced by a row of the store, and no order has two remote invoices
C33_EmissaoTemLinha ==
    (\A r \in Reqs : gen[r].pc \in {"ocioso", "fim"})
    => /\ \A k \in 1..Len(nfses) :
            \E j \in 1..Len(fila) : /\ fila[j].nfseId = k
                                    /\ fila[j].pedidoVendaId = nfses[k]
       /\ \A k, l \in 1..Len(nfses) : nfses[k] = nfses[l] => k = l

(***************************************************************************)
\* C34: at any moment at most one refresh grant is in flight, and no two
\* grants in flight present the same refresh token
C34_UmRefreshEmVoo ==
    ultTok.op = "chamadas"
    => /\ Len(ultTok.emVoo) <= 1
       /\ \A k, l \in 1..Len(ultTok.emVoo) :
            ultTok.emVoo[k].apresentado = ultTok.emVoo[l].apresentado => k = l

(***************************************************************************)
\* C35: when exchange or refresh fails on its token request (non-success
\* answer, timeout or network error), the cached tokens and the saved tokens
\* are those held before the call, and the call sent exactly one request
C35_FalhaNaoAltera ==
    /\ (ultTok.op = "exchange" /\ ultTok.excecao \in {"timeout", "rede", "falha"})
       => ultTok.inalterado /\ ultTok.discoInalterado /\ ultTok.rede = 1
    /\ (ultTok.op = "refresh" /\ ultTok.excecao /\ ultTok.held /\ ultTok.temRefresh)
       => ultTok.inalterado /\ ultTok.discoInalterado /\ ultTok.rede = 1

\* a refresh that failed while tokens were cached and saved: both are kept
C35_Witness ==
    /\ ultTok.op = "refresh" /\ ultTok.excecao /\ ultTok.held /\ ultTok.temRefresh
    /\ ultTok.rede = 1
    /\ tokens.held /\ tokens.refresh_token
    /\ disco # SemArquivo /\ disco = tokens.access_token

(***************************************************************************)
\* C36: the state is consumed before the token request is sent, so it has
\* left the set whatever the token endpoint answered; an exchange that
\* retries the state of an exchange whose token request failed raises the
\* CSRF error and sends no request
C36_StateNaoRestaurado ==
    ultTok.op = "exchange"
    => /\ ultTok.rede = 1 => ultTok.aceito /\ ~ultTok.restou
       /\ ultTok.retentativa
          => /\ ~ultTok.aceito
             /\ ultTok.excecao = "csrf"
             /\ ultTok.rede = 0

\* the retry of a state whose exchange timed out is refused
C36_Witness ==
    /\ ultTok.op = "exchange"
    /\ ultTok.retentativa
    /\ ultTok.excecao = "csrf"
    /\ ~tokens.held
    /\ redeTok = 1

(***************************************************************************)
C37_Valido ==
    /\ inicio.arquivo.tipo = "tokens"
    /\ inicio.agora < inicio.arquivo.expires_at

C37_Expirado == inicio.arquivo.tipo = "tokens" /\ ~C37_Valido

\* C37 (as stated): after the start the service holds the saved tokens if and
\* only if their expires_at is later than the clock; when they have expired
\* the file is deleted and no token is held, and the next ensureValidToken
\* raises without sending a refresh grant
C37_CarregaSoValidos ==
    (inicio.pc = "em_servico" /\ "arquivo" \in DOMAIN inicio)
    => /\ inicio.carregou.held <=> C37_Valido
       /\ inicio.carregou.held
          => /\ inicio.carregou.access_token = inicio.arquivo.access_token
             /\ inicio.carregou.refresh_token = inicio.arquivo.refresh_token
             /\ inicio.carregou.expires_at = inicio.arquivo.expires_at
       /\ C37_Expirado
          => /\ ~tokens.held /\ ~tokens.refresh_token
             /\ disco = SemArquivo
             /\ ultTok.op = "ensure" => ultTok.excecao /\ ultTok.rede = 0

\* C37 (amended): the same, but the file is deleted only when its removal
\* succeeds; when the removal fails the expired file stays where it was
C37_CarregaSoValidosRemoveSePuder ==
    (inicio.pc = "em_servico" /\ "arquivo" \in DOMAIN inicio)
    => /\ inicio.carregou.held <=> C37_Valido
       /\ inicio.carregou.held
          => /\ inicio.carregou.access_token = inicio.arquivo.access_token
             /\ inicio.carregou.refresh_token = inicio.arquivo.refresh_token
             /\ inicio.carregou.expires_at = inicio.arquivo.expires_at
       /\ C37_Expirado
          => /\ ~tokens.held /\ ~tokens.refresh_token
             /\ disco = IF inicio.falha THEN inicio.arquivo.access_token
                                        ELSE SemArquivo
             /\ ultTok.op = "ensure" => ultTok.excecao /\ ultTok.rede = 0

\* saved tokens that expired but carry a refresh token: after the start
\* nothing is held, the file is gone, and ensureValidToken raised
C37_Witness ==
    /\ inicio.pc = "em_servico" /\ "arquivo" \in DOMAIN inicio
    /\ C37_Expirado
    /\ inicio.arquivo.refresh_token
    /\ inicio.arquivo.expires_at = 300 /\ inicio.agora = 300
    /\ ~tokens.held /\ disco = SemArquivo
    /\ ultTok.op = "ensure" /\ ultTok.excecao /\ ultTok.rede = 0

(***************************************************************************)
\* the rows sync leaves alone: 'erro', 'emitido' with number, no NFSe id
C38_ForaDaSinc(row) ==
    \/ row.status = "erro"
    \/ (row.status = "emitido" /\ row.numeroNFSe # NULL)
    \/ row.nfseId = 0

\* C38: no step of sync changes any field of a row that is 'erro', that is
\* 'emitido' with an invoice number, or that has no NFSe id, and no step of
\* sync reads the remote invoice of such a row
C38_SincNaoTocaTerminais ==
    [][/\ \A k \in 1..Len(fila) : C38_ForaDaSinc(fila[k]) => fila'[k] = fila[k]
       /\ (ult'.op = "sinc" /\ ult'.leitura # "nao_chamada")
          => ~C38_ForaDaSinc(ult'.antes)]_vars

\* a finished sync that verified and wrote one row while the table holds an
\* 'erro' row with NFSe id that it did not list
C38_Witness ==
    /\ sinc.pc = "fim"
    /\ sinc.verificados = 1
    /\ ult.op = "sinc" /\ ult.escreveu
    /\ \E k \in 1..Len(fila) :
         /\ fila[k].status = "erro" /\ fila[k].nfseId # 0
         /\ \A j \in 1..Len(sinc.lista) : sinc.lista[j].id # fila[k].id

(***************************************************************************)
\* C39: when the compensating read of submit answered, submit took the invoice
\* as issued (result 'sucesso', row 'emitido') exactly when sync maps the same
\* remote situacao to 'emitido' for that row; so no row that submit marked
\* 'erro' is one that sync would have marked 'emitido'
C39_MesmaClassificacao ==
    (ult.op = "enviar" /\ ult.leitura = "ok" /\ ult.bd = {})
    => /\ ult.resultado = "sucesso"
          <=> NovoStatus(ult.situacao, "processando") = "emitido"
       /\ fila[ult.id].status = "erro"
          => NovoStatus(ult.situacao, fila[ult.id].status) # "emitido"

====
